---- MODULE Spec2Model ----
(***************************************************************************)
(* Provider dispatch and retry engine of astrbot_plugin_big_banana.        *)
(*                                                                         *)
(*   BigBanana._dispatch                 src/main.py                       *)
(*   BaseProvider.generate_images        src/core/base.py                  *)
(*   GeminiProvider._call_api / _call_stream_api   src/core/gemini.py      *)
(*   VertexAIAnonymousProvider           src/core/vertex_ai_anonymous.py   *)
(*                                                                         *)
(*   BigBanana.on_message / job / terminate       src/main.py             *)
(*   Downloader                          src/core/downloader.py            *)
(*   BigBanana.init_prompts / add_prompt_command / del_prompt_command      *)
(*                                                                         *)
(* Specifications: Spec (one dispatch), CancelSpec (with cancellation),    *)
(* JobSpec (reference images), ShutdownSpec (terminate and handlers),      *)
(* ConcurrentSpec (two dispatches at once), RequestSpec (parameters of a   *)
(* request), ImageSpec (image processor), PairSpec (two dispatches on the  *)
(* same outcomes), ParseSpec (reading a 200 response of Gemini),           *)
(* PromptSpec (preset prompts and the lm添加 / lm删除 commands).             *)
(*                                                                         *)
(* One dispatch is one sequential coroutine.  Every network call is an     *)
(* await: it is modelled by an action that issues the call and an action   *)
(* that receives its outcome and runs the code that follows it.            *)
(*                                                                         *)
(* Python values: None and "" are kept apart for messages (None is the     *)
(* string "None"); a missing image list (None) is the empty sequence, the  *)
(* adapters never return an empty list; a missing status (None) is         *)
(* StatusNone.  Message texts are abbreviated to ASCII tokens.             *)
(***************************************************************************)
EXTENDS Integers, Sequences, FiniteSets, TLC

(* ---------------- bounds of the model ---------------- *)
MaxProviders == 2
MaxKeys == 2
MaxRetry == 2
MaxVertexRetry == 2
MaxUrls == 2
MaxImages == 2
MaxHandlers == 2

(* ---------------- constants of the program ---------------- *)
RETRY_STATUS_CODES == {408, 500, 502, 503, 504}
NO_RETRY_STATUS_CODES == {401, 402, 403, 422, 429}
RecaptchaTries == 3
TokenExpired == 3
ResourceExhausted == 8
ContentBlocked == 999
DownloadTries == 3

None == "None"
StatusNone == -1
NoImages == << >>

(* truthiness of a Python str | None *)
Truthy(s) == s /= None /\ s /= ""

(* `x or y` on messages *)
OrElse(x, y) == IF Truthy(x) THEN x ELSE y

(* ---------------- messages ---------------- *)
MsgNoKey == "no_api_key_configured"
MsgKeysExhausted == "all_keys_exhausted_or_unavailable"
MsgNoProvider == "no_provider_available"
MsgTokenFailed == "recaptcha_token_failed"
MsgVertexExhausted == "retry_limit_reached"
MsgTooFewImages == "not_enough_images"
MsgAllDownloadsFailed == "all_reference_downloads_failed"

(* ---------------- configuration ---------------- *)
(* api_name of the configured providers and one name without configuration *)
GeminiName == "gemini"
VertexName == "vertex"
UnknownName == "ghost"
ProviderNames == {GeminiName, VertexName, UnknownName}

RECURSIVE SeqsOfLen(_, _)
SeqsOfLen(S, n) ==
  IF n = 0 THEN {<< >>}
  ELSE {Append(s, x) : s \in SeqsOfLen(S, n - 1), x \in S}

SeqsUpTo(S, n) == UNION {SeqsOfLen(S, k) : k \in 0..n}

(* providers_config.get(api_name): the ProviderConfig or None *)
ProviderConfigs(nkeys, stream) ==
  [n \in {GeminiName, VertexName} |->
     IF n = GeminiName
       THEN [api_name |-> n, api_type |-> "Gemini", keys |-> nkeys, stream |-> stream]
       ELSE [api_name |-> n, api_type |-> "Vertex_AI_Anonymous", keys |-> 0, stream |-> FALSE]]

(* ---------------- adapter outcomes ---------------- *)
(* mutant: the key index is not advanced *)
get_key_index_stuck(current_index_, item_len) == current_index_ % item_len

get_key_index(current_index_, item_len) == (current_index_ + 1) % item_len

should_retry(st) == st \in RETRY_STATUS_CODES

(* the image list an adapter call returns on success, told apart by call *)
ImagesOf(n) == << n >>

HttpErrorStatuses == RETRY_STATUS_CODES \cup NO_RETRY_STATUS_CODES \cup {400}

(* outcomes (images, status, err) of GeminiProvider._call_api *)
GeminiSyncOutcomes(n) ==
  {[images |-> ImagesOf(n), status |-> 200, err |-> None]}
  \cup {[images |-> NoImages, status |-> 200, err |-> m] :
          m \in {"finish_reason", "blocked_by_safety", "no_image_data"}}
  \cup {[images |-> NoImages, status |-> s, err |-> "upstream_error"] :
          s \in HttpErrorStatuses}
  \cup {[images |-> NoImages, status |-> 408, err |-> "timeout"]}
  \cup {[images |-> NoImages, status |-> s, err |-> "bad_content"] : s \in {200, 502}}
  \cup {[images |-> NoImages, status |-> StatusNone, err |-> "program_error"]}

(* outcomes (images, status, err) of GeminiProvider._call_stream_api; the  *)
(* status a non-200 message quotes is the status returned with it          *)
GeminiStreamOutcomes(n) ==
  {[images |-> ImagesOf(n), status |-> 200, err |-> None]}
  \cup {[images |-> NoImages, status |-> 200, err |-> "no_image_data"]}
  \cup {[images |-> NoImages, status |-> s, err |-> "status_code"] :
          s \in HttpErrorStatuses}
  \cup {[images |-> NoImages, status |-> 408, err |-> "timeout"]}
  \cup {[images |-> NoImages, status |-> StatusNone, err |-> "program_error"]}

(* outcomes (result, status, err_msg) of VertexAIAnonymousProvider._call_api *)
VertexErrorCodes == {TokenExpired, ResourceExhausted, 13, StatusNone}

VertexOutcomes(n) ==
  {[images |-> ImagesOf(n), status |-> StatusNone, err |-> None]}
  \cup {[images |-> NoImages, status |-> s, err |-> m] :
          s \in VertexErrorCodes, m \in {"", "vertex_error"}}
  \cup {[images |-> NoImages, status |-> ContentBlocked, err |-> m] :
          m \in {"finish_reason", "no_image_data"}}
  \cup {[images |-> NoImages, status |-> StatusNone, err |-> m] :
          m \in {"status_code", "timeout", "bad_format", "program_error"}}

(* what one request of _execute_recaptcha can do *)
AnchorOutcomes == {"found", "missing", "raise"}
ReloadOutcomes == {"token", "empty", "no_match", "raise"}

VARIABLES
  active_providers,  \* _dispatch: the provider names to try
  providers_config,  \* BigBanana.providers_config
  max_retry,         \* CommonConfig.max_retry
  smart_retry,       \* CommonConfig.smart_retry
  vertex_max_retry,  \* VertexAIAnonymousConfig.max_retry
  pc,                \* position of the dispatch coroutine
  pos,               \* _dispatch: 1-based position in active_providers
  images_result,     \* _dispatch: images returned by the provider
  dispatch_err,      \* _dispatch: err
  current_index,     \* generate_images: index of the key in use
  key_,              \* generate_images: outer loop counter
  i,                 \* generate_images: inner loop counter
  status,            \* status of the last adapter call
  err,               \* generate_images: err
  visited,           \* history: the key index of every outer iteration
  recaptcha_token,   \* Vertex generate_images: the token in use (0: none)
  vx_try,            \* Vertex generate_images: loop counter _
  err_msg,           \* Vertex generate_images: err_msg
  rc_try,            \* _get_recaptcha_token: loop counter _
  rc_site,           \* which call of _get_recaptcha_token is running
  tokens,            \* Vertex generate_images: number of tokens obtained
  ret,               \* what _dispatch returned
  tried,             \* history: the providers entered, in order
  calls,             \* history: the generation requests of the provider in turn
  in_flight,         \* history: number of network requests awaiting a response
  cancel_requested,  \* task.cancel() was called on the dispatch task
  job_pc,            \* position of job in its reference-image part
  image_urls,        \* job: the reference URLs, without duplicates
  image_b64_list,    \* job: the reference images resolved so far
  min_required_images, \* job: min_images of the request
  max_allowed_images,  \* job: max_images of the request
  fetch_urls,        \* fetch_images: image_urls, the URLs to download
  fetched,           \* fetch_images: its image_b64_list
  url_pos,           \* fetch_images: 1-based position of the URL in turn
  dl_try,            \* fetch_images: the retry counter _
  job_ret,           \* what job returned before the dispatch
  succeeded,         \* history: the URLs a download of which returned content
  gets,              \* history: the number of GET requests made for each URL
  handler_pc,        \* on_message: position of the handler of each message
  task,              \* on_message: state of the job task of each message
  running_tasks,     \* BigBanana.running_tasks: the message ids registered
  term_pc,           \* position of terminate
  gathered,          \* terminate: the tasks handed to asyncio.gather
  session_open,      \* the shared HTTP session is open
  locals,            \* concurrent dispatches: the locals of each generate_images
  alone,             \* reference: the locals of the same call running alone
  issued,            \* history: the dispatch each reCAPTCHA token was issued to
  last_proc,         \* history: the dispatch that ran last
  preset,            \* request: prompt_dict[cmd], the parameters of the preset
  user_params,       \* request: the parameters parsed from the user's message
  def_prompt_config, \* request: the global defaults (PromptConfig)
  has_user_text,     \* request: the preset prompt holds {{user_text}}
  preset_append,     \* request: params.get("preset_append", common_config.preset_append)
  model_gemini3,     \* request: "gemini-3" in provider_config.model.lower()
  params,            \* request: the params dict handed to job and the builders
  req_pc,            \* request: position of the request
  min_images_read,   \* request: min_required_images as job reads it
  context,           \* request: the generationConfig of the body built
  batch,             \* image processor: the contents the URLs of a batch serve
  img_pos,           \* image processor: fetch_images: index of the URL in turn
  img_try,           \* image processor: fetch_images: tries made for that URL
  handled,           \* image processor: the image_b64_list of fetch_images
  opened,            \* image processor, history: the URLs whose bytes Image.open saw
  outcome_table,     \* two runs: the outcome of every (key, attempt)
  runs,              \* two runs: what each of the two dispatches did
  api_result,        \* response parsing: the decoded body of a 200 response
  via_stream,        \* response parsing: the body came over the streamed transport
  parsed,            \* response parsing: what the adapter call returned
  parse_pc,          \* response parsing: position of the adapter call
  prompt_list,       \* prompts: BigBanana.prompt_list, the configured preset entries
  prompt_dict        \* prompts: BigBanana.prompt_dict, trigger word to parsed preset

vars == <<active_providers, providers_config, max_retry, smart_retry,
          vertex_max_retry, pc, pos, images_result, dispatch_err,
          current_index, key_, i, status, err, visited, recaptcha_token, vx_try,
          err_msg, rc_try, rc_site, tokens, ret, tried, calls, in_flight,
          cancel_requested, job_pc, image_urls, image_b64_list,
          min_required_images, max_allowed_images, fetch_urls, fetched, url_pos,
          dl_try, job_ret, succeeded, gets, handler_pc, task, running_tasks,
          term_pc,
          gathered, session_open, locals, alone, issued, last_proc,
          preset, user_params, def_prompt_config, has_user_text, preset_append,
          model_gemini3, params, req_pc, min_images_read, context,
          batch, img_pos, img_try, handled, opened, outcome_table, runs,
          api_result, via_stream, parsed, parse_pc,
          prompt_list, prompt_dict>>

config == <<active_providers, providers_config, max_retry, smart_retry,
            vertex_max_retry>>

base == <<current_index, key_, i, err, visited>>

vertex == <<recaptcha_token, vx_try, err_msg, rc_try, rc_site, tokens>>

engine == <<base, status, vertex>>

(* the reference-image part of job and the downloader *)
jobvars == <<job_pc, image_urls, image_b64_list, min_required_images,
             max_allowed_images, fetch_urls, fetched, url_pos, dl_try, job_ret,
             succeeded, gets>>

(* the message handlers, their tasks and terminate *)
shutdownvars == <<handler_pc, task, running_tasks, term_pc, gathered, session_open>>

(* two dispatches running at once *)
concvars == <<locals, alone, issued, last_proc>>

(* the parameters of one request, from the message to the request body *)
reqvars == <<preset, user_params, def_prompt_config, has_user_text, preset_append,
             model_gemini3, params, req_pc, min_images_read, context>>

(* the image processor on one batch of downloads *)
imgvars == <<batch, img_pos, img_try, handled, opened>>

(* two dispatches on the same outcomes *)
pairvars == <<outcome_table, runs>>

(* the parsing of one 200 response of the Gemini API *)
parsevars == <<api_result, via_stream, parsed, parse_pc>>

(* the preset prompts and the administration commands *)
promptvars == <<prompt_list, prompt_dict>>

auxvars == <<reqvars, imgvars, pairvars, parsevars, promptvars>>

(* what the steps of one dispatch never write *)
aside == <<cancel_requested, jobvars, shutdownvars, concvars, auxvars>>

(* the dispatch and its configuration *)
dispatchvars == <<config, pc, pos, images_result, dispatch_err, engine, ret, tried,
                  calls, in_flight>>

(* the reference-image part of job is not under study *)
JobIdle ==
  /\ job_pc = "idle"
  /\ image_urls = << >>
  /\ image_b64_list = << >>
  /\ min_required_images = 0
  /\ max_allowed_images = 0
  /\ fetch_urls = << >>
  /\ fetched = << >>
  /\ url_pos = 1
  /\ dl_try = 0
  /\ job_ret = None
  /\ succeeded = {}
  /\ gets = << >>

(* message ids: one handler per message *)
Handlers == 1..MaxHandlers

(* the plugin is initialized, no message has arrived *)
ShutdownIdle ==
  /\ handler_pc = [h \in Handlers |-> "absent"]
  /\ task = [h \in Handlers |-> "none"]
  /\ running_tasks = {}
  /\ term_pc = "idle"
  /\ gathered = {}
  /\ session_open = TRUE

(* the dispatches that run at once *)
Dispatches == {1, 2}

(* the locals of a generate_images call that has not started *)
NewLocals(kind) ==
  [kind |-> kind, pc |-> "start", current_index |-> 0, key_ |-> 0, i |-> 0,
   err |-> None, recaptcha_token |-> 0, vx_try |-> 0, err_msg |-> None,
   first |-> TRUE, images |-> NoImages, error |-> None]

(* no concurrent dispatches are under study *)
ConcurrentIdle ==
  /\ locals = << >>
  /\ alone = << >>
  /\ issued = << >>
  /\ last_proc = 1

(* a dict without keys *)
EmptyDict == [k \in {} |-> k]

(* no request is under study *)
RequestIdle ==
  /\ preset = EmptyDict
  /\ user_params = EmptyDict
  /\ def_prompt_config = EmptyDict
  /\ has_user_text = FALSE
  /\ preset_append = FALSE
  /\ model_gemini3 = FALSE
  /\ params = EmptyDict
  /\ req_pc = "idle"
  /\ min_images_read = 0
  /\ context = EmptyDict

(* no batch of downloads is under study *)
ImageIdle ==
  /\ batch = << >>
  /\ img_pos = 1
  /\ img_try = 0
  /\ handled = << >>
  /\ opened = {}

(* no pair of runs is under study *)
PairIdle ==
  /\ outcome_table = << >>
  /\ runs = << >>

(* the parsing of one 200 response of the Gemini API: not under study *)
ParseIdle ==
  /\ api_result = EmptyDict
  /\ via_stream = FALSE
  /\ parsed = EmptyDict
  /\ parse_pc = "idle"

(* the preset prompts and the administration commands: not under study *)
PromptIdle ==
  /\ prompt_list = << >>
  /\ prompt_dict = EmptyDict

AuxIdle == RequestIdle /\ ImageIdle /\ PairIdle /\ ParseIdle /\ PromptIdle

NoRet == [images |-> NoImages, err |-> None]

(* name occurs in the list of provider names *)
Listed(names, name) == \E k \in 1..Len(names) : names[k] = name

(* A setting that no provider of the list reads is given one value: the   *)
(* Gemini settings when the Gemini provider is not listed, the Vertex     *)
(* setting when the Vertex provider is not listed.                        *)
Init ==
  /\ active_providers \in SeqsUpTo(ProviderNames, MaxProviders)
  /\ \E nkeys \in 0..MaxKeys, stream \in BOOLEAN :
        providers_config = ProviderConfigs(nkeys, stream)
  /\ max_retry \in 0..MaxRetry
  /\ smart_retry \in BOOLEAN
  /\ vertex_max_retry \in 0..MaxVertexRetry
  /\ ~Listed(active_providers, GeminiName) =>
        /\ providers_config = ProviderConfigs(0, FALSE)
        /\ max_retry = 0
        /\ ~smart_retry
  /\ ~Listed(active_providers, VertexName) => vertex_max_retry = 0
  /\ pc = "dispatch"
  /\ pos = 1
  /\ images_result = NoImages
  /\ dispatch_err = None
  /\ current_index = 0
  /\ key_ = 0
  /\ i = 0
  /\ status = StatusNone
  /\ err = None
  /\ visited = << >>
  /\ recaptcha_token = 0
  /\ vx_try = 0
  /\ err_msg = None
  /\ rc_try = 0
  /\ rc_site = "first"
  /\ tokens = 0
  /\ ret = NoRet
  /\ tried = << >>
  /\ calls = << >>
  /\ in_flight = 0
  /\ cancel_requested = FALSE
  /\ JobIdle
  /\ ShutdownIdle
  /\ ConcurrentIdle
  /\ AuxIdle

Configured(name) == name \in DOMAIN providers_config

CurrentConfig == providers_config[active_providers[pos]]

(* a generation request of the provider at pos *)
Call(key, ord, try, token) ==
  [pos |-> pos, key |-> key, key_ |-> ord, try |-> try, token |-> token]

(* await of a network request: issue it, then wait for its response *)
Issue == in_flight' = in_flight + 1

(* history: the provider in turn has issued a generation request *)
MarkCalled == [tried EXCEPT ![Len(tried)].called = TRUE]

Receive == in_flight' = in_flight - 1

(* ---------------- BigBanana._dispatch ---------------- *)
(* mutant: an unknown name ends the dispatch *)
SkipUnknownProviderAbort ==
  /\ pc = "dispatch"
  /\ pos <= Len(active_providers)
  /\ ~Configured(active_providers[pos])
  /\ pc' = "done"
  /\ dispatch_err' = "provider_not_found"
  /\ ret' = [images |-> NoImages, err |-> dispatch_err']
  /\ UNCHANGED <<aside, config, pos, images_result, engine, tried, calls, in_flight>>

(* no configuration for the name: warn and continue *)
SkipUnknownProvider ==
  /\ pc = "dispatch"
  /\ pos <= Len(active_providers)
  /\ ~Configured(active_providers[pos])
  /\ pos' = pos + 1
  /\ UNCHANGED <<aside, config, pc, images_result, dispatch_err, engine, ret, tried, calls, in_flight>>

(* provider_map[api_type].generate_images(...) is entered.  The tuple     *)
(* assignment `images_result, err = await ...` overwrites err when the    *)
(* call returns and nothing reads err in between: the value err held      *)
(* before the call is dropped here.                                       *)
EnterProvider ==
  /\ pc = "dispatch"
  /\ pos <= Len(active_providers)
  /\ Configured(active_providers[pos])
  /\ pc' = IF CurrentConfig.api_type = "Gemini" THEN "base_enter" ELSE "vertex_enter"
  /\ tried' = Append(tried, [pos |-> pos, called |-> FALSE])
  /\ dispatch_err' = None
  /\ UNCHANGED <<aside, config, pos, images_result, engine, ret, calls, in_flight>>

(* the locals of a generate_images call end with the call *)
DropLocals ==
  /\ current_index' = 0
  /\ key_' = 0
  /\ i' = 0
  /\ status' = StatusNone
  /\ err' = None
  /\ visited' = << >>
  /\ recaptcha_token' = 0
  /\ vx_try' = 0
  /\ err_msg' = None
  /\ rc_try' = 0
  /\ rc_site' = "first"
  /\ tokens' = 0

(* mutant: the provider loop goes on after a success *)
DispatchStepNoStop(imgs) ==
  /\ pos' = pos + 1
  /\ pc' = "dispatch"
  /\ ret' = ret
  /\ calls' = << >>

(* if images_result: return images_result, None; else the next provider *)
DispatchStep(imgs) ==
  IF Len(imgs) > 0
    THEN /\ ret' = [images |-> imgs, err |-> None]
         /\ pc' = "done"
         /\ pos' = pos
         /\ calls' = calls
    ELSE /\ pos' = pos + 1
         /\ pc' = "dispatch"
         /\ ret' = ret
         /\ calls' = << >>

(* generate_images has returned (images_result, err) to _dispatch *)
ProviderReturned ==
  /\ pc = "provider_ret"
  /\ DispatchStep(images_result)
  /\ DropLocals
  /\ UNCHANGED <<aside, config, images_result, dispatch_err, tried, in_flight>>

(* the error _dispatch returns when no provider succeeded *)
FinalError(providers, e) == IF Len(providers) = 0 THEN MsgNoProvider ELSE e

(* the provider loop is over without success *)
DispatchFailed ==
  /\ pc = "dispatch"
  /\ pos > Len(active_providers)
  /\ dispatch_err' = FinalError(active_providers, dispatch_err)
  /\ ret' = [images |-> NoImages, err |-> dispatch_err']
  /\ pc' = "done"
  /\ UNCHANGED <<aside, config, pos, images_result, engine, tried, calls, in_flight>>

(* ---------------- BaseProvider.generate_images ---------------- *)
(* return from generate_images to _dispatch *)
ReturnToDispatch(imgs, e) ==
  /\ images_result' = imgs
  /\ dispatch_err' = e
  /\ pc' = "provider_ret"

(* mutant: an empty key list enters the key loop *)
BaseNoKeysEntersLoop ==
  /\ pc = "base_enter"
  /\ CurrentConfig.keys = 0
  /\ pc' = "key_loop"
  /\ UNCHANGED <<images_result, dispatch_err>>
  /\ UNCHANGED <<aside, config, pos, engine, ret, tried, calls, in_flight>>

(* if key_list_len == 0: return None, "no API key configured" *)
BaseNoKeys ==
  /\ pc = "base_enter"
  /\ CurrentConfig.keys = 0
  /\ ReturnToDispatch(NoImages, MsgNoKey)
  /\ UNCHANGED <<aside, config, pos, engine, ret, tried, calls, in_flight>>

(* current_index = random.randrange(key_list_len); err = None *)
BaseStart ==
  /\ pc = "base_enter"
  /\ CurrentConfig.keys > 0
  /\ current_index' \in 0..(CurrentConfig.keys - 1)
  /\ err' = None
  /\ key_' = 0
  /\ pc' = "key_loop"
  /\ UNCHANGED <<aside, config, pos, images_result, dispatch_err, i, status, visited, vertex, ret, tried, calls, in_flight>>

(* for key_ in range(key_list_len): current_index = get_key_index(...) *)
NextKey ==
  /\ pc = "key_loop"
  /\ key_ < CurrentConfig.keys
  /\ current_index' = get_key_index(current_index, CurrentConfig.keys)
  /\ visited' = Append(visited, current_index')
  /\ i' = 0
  /\ pc' = "retry_loop"
  /\ UNCHANGED <<aside, config, pos, images_result, dispatch_err, key_, status, err, vertex, ret, tried, calls, in_flight>>

(* mutant: the captured message is dropped *)
ExhaustedErrorGeneric(e) == MsgKeysExhausted

(* the error generate_images returns when the keys are used up *)
ExhaustedError(e) == OrElse(e, MsgKeysExhausted)

(* the key loop is over: return None, err or "all keys exhausted" *)
BaseExhausted ==
  /\ pc = "key_loop"
  /\ key_ >= CurrentConfig.keys
  /\ ReturnToDispatch(NoImages, ExhaustedError(err))
  /\ UNCHANGED <<aside, config, pos, engine, ret, tried, calls, in_flight>>

(* mutant: the request is started but not awaited *)
IssueCallNoAwait ==
  /\ pc = "retry_loop"
  /\ i < max_retry
  /\ calls' = Append(calls, Call(current_index, key_, i, 0))
  /\ tried' = MarkCalled
  /\ Issue
  /\ i' = i + 1
  /\ UNCHANGED <<aside, config, pc, pos, images_result, dispatch_err, current_index, key_,
                 status, err, visited, vertex, ret>>

(* for i in range(max_retry): await self._call_api / _call_stream_api *)
IssueCall ==
  /\ pc = "retry_loop"
  /\ i < max_retry
  /\ calls' = Append(calls, Call(current_index, key_, i, 0))
  /\ tried' = MarkCalled
  /\ Issue
  /\ pc' = "calling"
  /\ UNCHANGED <<aside, config, pos, images_result, dispatch_err, engine, ret>>

(* mutant: the else branch of the inner loop leaves the outer counter as it is *)
RetriesExhaustedSameKey ==
  /\ pc = "retry_loop"
  /\ i >= max_retry
  /\ key_' = key_
  /\ pc' = "key_loop"
  /\ UNCHANGED <<aside, config, pos, images_result, dispatch_err, current_index, i, status, err, visited, vertex, ret, tried, calls, in_flight>>

(* the inner loop ran out without break: the else branch, next key *)
RetriesExhausted ==
  /\ pc = "retry_loop"
  /\ i >= max_retry
  /\ key_' = key_ + 1
  /\ pc' = "key_loop"
  /\ UNCHANGED <<aside, config, pos, images_result, dispatch_err, current_index, i, status, err, visited, vertex, ret, tried, calls, in_flight>>

AdapterOutcomes ==
  IF CurrentConfig.stream THEN GeminiStreamOutcomes(Len(calls))
                          ELSE GeminiSyncOutcomes(Len(calls))

(* mutant: the retry test is inverted *)
BreakInnerInverted(smart, st) == smart /\ should_retry(st)

(* mutant: the smart_retry switch is ignored *)
BreakInnerAlways(smart, st) == ~should_retry(st)

(* mutant: smart retry leaves the key after any failure *)
BreakInnerAny(smart, st) == smart

(* break when smart_retry and not should_retry(status) *)
BreakInner(smart, st) == smart /\ ~should_retry(st)

(* what follows an adapter call in the inner loop *)
AfterCall(o) ==
  IF Len(o.images) > 0
    THEN /\ ReturnToDispatch(o.images, None)
         /\ UNCHANGED <<key_, i>>
    ELSE /\ UNCHANGED <<images_result, dispatch_err>>
         /\ IF BreakInner(smart_retry, o.status)
              THEN /\ key_' = key_ + 1
                   /\ i' = i
                   /\ pc' = "key_loop"
              ELSE /\ i' = i + 1
                   /\ key_' = key_
                   /\ pc' = "retry_loop"

(* the adapter call returns (images_result, status, err) *)
CallReturned ==
  /\ pc = "calling"
  /\ Receive
  /\ \E o \in AdapterOutcomes :
       /\ status' = o.status
       /\ err' = o.err
       /\ AfterCall(o)
  /\ UNCHANGED <<aside, config, pos, current_index, visited, vertex, ret, tried, calls>>

(* ---------------- VertexAIAnonymousProvider.generate_images ---------------- *)
(* recaptcha_token = await self._get_recaptcha_token() *)
GetToken(site) ==
  /\ rc_try' = 0
  /\ rc_site' = site
  /\ pc' = "rc_loop"

VertexEnter ==
  /\ pc = "vertex_enter"
  /\ GetToken("first")
  /\ UNCHANGED <<aside, config, pos, images_result, dispatch_err, base, status,
                 recaptcha_token, vx_try, err_msg, tokens, ret, tried, calls, in_flight>>

(* _get_recaptcha_token: for _ in range(3) -> _execute_recaptcha: GET anchor *)
IssueAnchor ==
  /\ pc = "rc_loop"
  /\ rc_try < RecaptchaTries
  /\ Issue
  /\ pc' = "anchor_calling"
  /\ UNCHANGED <<aside, config, pos, images_result, dispatch_err, engine, ret, tried, calls>>

(* one exchange yielded no token: warn and try again *)
ExchangeFailed ==
  /\ rc_try' = rc_try + 1
  /\ pc' = "rc_loop"

(* the anchor page arrived (or session.get raised) *)
AnchorReturned ==
  /\ pc = "anchor_calling"
  /\ Receive
  /\ \E o \in AnchorOutcomes :
       CASE o = "found"   -> /\ pc' = "reload"
                             /\ rc_try' = rc_try
         [] o = "missing" -> ExchangeFailed
         [] o = "raise"   -> /\ pc' = "raised"
                             /\ rc_try' = rc_try
  /\ UNCHANGED <<aside, config, pos, images_result, dispatch_err, base, status,
                 recaptcha_token, vx_try, err_msg, rc_site, tokens, ret, tried, calls>>

(* _execute_recaptcha: POST reload *)
IssueReload ==
  /\ pc = "reload"
  /\ Issue
  /\ pc' = "reload_calling"
  /\ UNCHANGED <<aside, config, pos, images_result, dispatch_err, engine, ret, tried, calls>>

(* mutant: an attempt that ended in a token refresh is not counted *)
TokenObtainedUncounted ==
  /\ tokens' = tokens + 1
  /\ recaptcha_token' = tokens + 1
  /\ rc_try' = rc_try
  /\ IF rc_site = "first"
       THEN /\ err_msg' = None
            /\ vx_try' = 0
       ELSE /\ err_msg' = err_msg
            /\ vx_try' = vx_try
  /\ pc' = "vertex_loop"

(* _get_recaptcha_token returned a token to generate_images *)
TokenObtained ==
  /\ tokens' = tokens + 1
  /\ recaptcha_token' = tokens + 1
  /\ rc_try' = rc_try
  /\ IF rc_site = "first"
       THEN /\ err_msg' = None
            /\ vx_try' = 0
       ELSE /\ err_msg' = err_msg
            /\ vx_try' = vx_try + 1
  /\ pc' = "vertex_loop"

(* the reload response arrived (or session.post raised) *)
ReloadReturned ==
  /\ pc = "reload_calling"
  /\ Receive
  /\ \E o \in ReloadOutcomes :
       CASE o = "token" -> TokenObtained
         [] o \in {"empty", "no_match"} ->
              /\ ExchangeFailed
              /\ UNCHANGED <<recaptcha_token, vx_try, err_msg, tokens>>
         [] o = "raise" ->
              /\ pc' = "raised"
              /\ UNCHANGED <<recaptcha_token, vx_try, err_msg, rc_try, tokens>>
  /\ UNCHANGED <<aside, config, pos, images_result, dispatch_err, base, status,
                 rc_site, ret, tried, calls>>

(* mutant: the missing token is not tested, the loop starts without one *)
TokenFailedIgnored ==
  /\ pc = "rc_loop"
  /\ rc_try >= RecaptchaTries
  /\ recaptcha_token' = 0
  /\ pc' = "vertex_loop"
  /\ UNCHANGED <<aside, config, pos, images_result, dispatch_err, base, status, vx_try,
                 err_msg, rc_try, rc_site, tokens, ret, tried, calls, in_flight>>

(* three exchanges without a token: _get_recaptcha_token returns None *)
TokenFailed ==
  /\ pc = "rc_loop"
  /\ rc_try >= RecaptchaTries
  /\ recaptcha_token' = 0
  /\ ReturnToDispatch(NoImages, MsgTokenFailed)
  /\ UNCHANGED <<aside, config, pos, base, status, vx_try, err_msg, rc_try, rc_site,
                 tokens, ret, tried, calls, in_flight>>

(* for _ in range(max_retry): body[recaptchaToken] = token; await _call_api *)
VertexIssueCall ==
  /\ pc = "vertex_loop"
  /\ vx_try < vertex_max_retry
  /\ calls' = Append(calls, Call(0, 0, vx_try, recaptcha_token))
  /\ tried' = MarkCalled
  /\ Issue
  /\ pc' = "vertex_calling"
  /\ UNCHANGED <<aside, config, pos, images_result, dispatch_err, engine, ret>>

(* the loop ran out: return None, err_msg or "retry limit reached" *)
VertexExhausted ==
  /\ pc = "vertex_loop"
  /\ vx_try >= vertex_max_retry
  /\ ReturnToDispatch(NoImages, OrElse(err_msg, MsgVertexExhausted))
  /\ UNCHANGED <<aside, config, pos, engine, ret, tried, calls, in_flight>>

(* mutant: status 3 is retried with the token that was rejected *)
VertexAfterCallNoRefresh(o) ==
  IF Len(o.images) > 0
    THEN /\ ReturnToDispatch(o.images, None)
         /\ UNCHANGED <<vx_try, rc_try, rc_site>>
  ELSE IF o.status = ContentBlocked
    THEN /\ ReturnToDispatch(NoImages, o.err)
         /\ UNCHANGED <<vx_try, rc_try, rc_site>>
    ELSE /\ vx_try' = vx_try + 1
         /\ pc' = "vertex_loop"
         /\ UNCHANGED <<images_result, dispatch_err, rc_try, rc_site>>

(* mutant: status 999 is retried like any other failure *)
VertexAfterCallNoAbort(o) ==
  IF Len(o.images) > 0
    THEN /\ ReturnToDispatch(o.images, None)
         /\ UNCHANGED <<vx_try, rc_try, rc_site>>
  ELSE IF o.status = TokenExpired
    THEN /\ GetToken("refresh")
         /\ UNCHANGED <<images_result, dispatch_err, vx_try>>
    ELSE /\ vx_try' = vx_try + 1
         /\ pc' = "vertex_loop"
         /\ UNCHANGED <<images_result, dispatch_err, rc_try, rc_site>>

(* mutant: status 8 refreshes the token like status 3 *)
VertexAfterCallRefreshOnExhausted(o) ==
  IF Len(o.images) > 0
    THEN /\ ReturnToDispatch(o.images, None)
         /\ UNCHANGED <<vx_try, rc_try, rc_site>>
  ELSE IF o.status \in {TokenExpired, ResourceExhausted}
    THEN /\ GetToken("refresh")
         /\ UNCHANGED <<images_result, dispatch_err, vx_try>>
  ELSE IF o.status = ContentBlocked
    THEN /\ ReturnToDispatch(NoImages, o.err)
         /\ UNCHANGED <<vx_try, rc_try, rc_site>>
    ELSE /\ vx_try' = vx_try + 1
         /\ pc' = "vertex_loop"
         /\ UNCHANGED <<images_result, dispatch_err, rc_try, rc_site>>

(* what follows a generation attempt in the Vertex loop *)
VertexAfterCall(o) ==
  IF Len(o.images) > 0
    THEN /\ ReturnToDispatch(o.images, None)
         /\ UNCHANGED <<vx_try, rc_try, rc_site>>
  ELSE IF o.status = TokenExpired
    THEN /\ GetToken("refresh")
         /\ UNCHANGED <<images_result, dispatch_err, vx_try>>
  ELSE IF o.status = ContentBlocked
    THEN /\ ReturnToDispatch(NoImages, o.err)
         /\ UNCHANGED <<vx_try, rc_try, rc_site>>
    ELSE /\ vx_try' = vx_try + 1
         /\ pc' = "vertex_loop"
         /\ UNCHANGED <<images_result, dispatch_err, rc_try, rc_site>>

(* _call_api returned (result, status, err_msg) *)
VertexCallReturned ==
  /\ pc = "vertex_calling"
  /\ Receive
  /\ \E o \in VertexOutcomes(Len(calls)) :
       /\ status' = o.status
       /\ err_msg' = o.err
       /\ VertexAfterCall(o)
  /\ UNCHANGED <<aside, config, pos, base, recaptcha_token, tokens, ret, tried, calls>>

Next ==
  \/ SkipUnknownProvider
  \/ EnterProvider
  \/ ProviderReturned
  \/ DispatchFailed
  \/ BaseNoKeys
  \/ BaseStart
  \/ NextKey
  \/ BaseExhausted
  \/ IssueCall
  \/ RetriesExhausted
  \/ CallReturned
  \/ VertexEnter
  \/ IssueAnchor
  \/ AnchorReturned
  \/ IssueReload
  \/ ReloadReturned
  \/ TokenFailed
  \/ VertexIssueCall
  \/ VertexExhausted
  \/ VertexCallReturned

Spec == Init /\ [][Next]_vars

(* ---------------- cancellation of the dispatch task ---------------- *)
(* the awaits of a dispatch: the task is suspended in a network request *)
Suspended ==
  pc \in {"calling", "vertex_calling", "anchor_calling", "reload_calling"}

(* mutant: the adapter's `except Exception` takes the cancellation for a *)
(* program error and the retry loop goes on                              *)
CancelAbsorbed ==
  /\ pc = "calling"
  /\ cancel_requested' = TRUE
  /\ Receive
  /\ status' = StatusNone
  /\ err' = "program_error"
  /\ AfterCall([images |-> NoImages, status |-> StatusNone, err |-> "program_error"])
  /\ UNCHANGED <<jobvars, shutdownvars, concvars, auxvars, config, pos, current_index, visited,
                 vertex, ret, tried, calls>>

(* task.cancel(): CancelledError is raised at the await the task is       *)
(* suspended in; it is a BaseException, which no `except Exception` or    *)
(* `except Timeout` of the adapters takes, so it unwinds _call_api,       *)
(* generate_images, _dispatch and job, and the request is torn down.      *)
Cancel ==
  /\ Suspended
  /\ cancel_requested' = TRUE
  /\ pc' = "cancelled"
  /\ in_flight' = 0
  /\ DropLocals
  /\ UNCHANGED <<jobvars, shutdownvars, concvars, auxvars, config, pos, images_result,
                 dispatch_err, ret, tried, calls>>

NextOrCancel ==
  \/ Next
  \/ Cancel

CancelSpec == Init /\ [][NextOrCancel]_vars

(* ---------------- BigBanana.job: the reference images ---------------- *)
(* the dispatch is not under study: nothing is configured or started *)
NotDispatching ==
  /\ active_providers = << >>
  /\ pc = "dispatch"
  /\ pos = 1
  /\ images_result = NoImages
  /\ dispatch_err = None
  /\ current_index = 0
  /\ key_ = 0
  /\ i = 0
  /\ status = StatusNone
  /\ err = None
  /\ visited = << >>
  /\ recaptcha_token = 0
  /\ vx_try = 0
  /\ err_msg = None
  /\ rc_try = 0
  /\ rc_site = "first"
  /\ tokens = 0
  /\ ret = NoRet
  /\ tried = << >>
  /\ calls = << >>
  /\ in_flight = 0
  /\ cancel_requested = FALSE

DispatchIdle ==
  /\ NotDispatching
  /\ providers_config = ProviderConfigs(0, FALSE)
  /\ max_retry = 0
  /\ smart_retry = FALSE
  /\ vertex_max_retry = 0

(* what the steps of the reference-image part never write *)
notjob == <<dispatchvars, cancel_requested, shutdownvars, concvars, auxvars>>

Min(a, b) == IF a < b THEN a ELSE b

(* the (mime, base64) pair made from the content of URL u *)
Payload(u) == [from |-> "url", n |-> u]

(* the (mime, base64) pair read from the k-th refer_images file *)
ReferImage(k) == [from |-> "file", n |-> k]

(* what asyncio.to_thread(read_file, path) gives for a name of            *)
(* refer_images: a file read, (None, None), or a name that is blank       *)
FileKinds == {"read", "unreadable", "blank"}

MaxFiles == 3

(* for filename in refer_images.split(","): the loop from name k on; it   *)
(* breaks once len(image_b64_list) >= max_allowed_images                  *)
RECURSIVE ReadReferImages(_, _, _, _)
ReadReferImages(refer_images, k, b64_list, max_images) ==
  IF k > Len(refer_images) \/ Len(b64_list) >= max_images
    THEN b64_list
    ELSE ReadReferImages(refer_images, k + 1,
                         IF refer_images[k] = "read"
                           THEN Append(b64_list, ReferImage(k))
                           ELSE b64_list,
                         max_images)

(* job after the URLs of the message are collected *)
JobInit ==
  /\ DispatchIdle
  /\ ShutdownIdle
  /\ ConcurrentIdle
  /\ AuxIdle
  /\ job_pc = "files"
  /\ min_required_images \in 0..MaxImages
  /\ max_allowed_images \in 0..MaxImages
  /\ \E n \in 0..MaxUrls : image_urls = [u \in 1..n |-> u]
  /\ image_b64_list = << >>
  /\ fetch_urls = << >>
  /\ fetched = << >>
  /\ url_pos = 1
  /\ dl_try = 0
  /\ job_ret = None
  /\ succeeded = {}
  /\ gets = << >>

(* max_allowed_images - len(image_b64_list) *)
append_count == max_allowed_images - Len(image_b64_list)

(* mutant: the slice takes every URL *)
FirstUrlsAll(urls, n) == urls

(* image_urls[:append_count] for append_count > 0 *)
FirstUrls(urls, n) == SubSeq(urls, 1, Min(n, Len(urls)))

(* image_b64_list after the refer_images loop, for every list of names *)
JobReadFiles ==
  /\ job_pc = "files"
  /\ \E refer_images \in SeqsUpTo(FileKinds, MaxFiles) :
       image_b64_list' = ReadReferImages(refer_images, 1, << >>, max_allowed_images)
  /\ job_pc' = "check"
  /\ UNCHANGED <<notjob, image_urls, min_required_images, max_allowed_images,
                 fetch_urls, fetched, url_pos, dl_try, job_ret, succeeded, gets>>

(* the count test before the downloads: URLs plus files against min_images *)
JobTooFewImages ==
  /\ job_pc = "check"
  /\ Len(image_urls) + Len(image_b64_list) < min_required_images
  /\ job_ret' = MsgTooFewImages
  /\ job_pc' = "done"
  /\ UNCHANGED <<notjob, image_urls, image_b64_list, min_required_images,
                 max_allowed_images, fetch_urls, fetched, url_pos, dl_try, succeeded, gets>>

(* fetched = await self.downloader.fetch_images(image_urls[:append_count]) *)
JobStartFetch ==
  /\ job_pc = "check"
  /\ Len(image_urls) + Len(image_b64_list) >= min_required_images
  /\ append_count > 0
  /\ Len(image_urls) > 0
  /\ fetch_urls' = FirstUrls(image_urls, append_count)
  /\ fetched' = << >>
  /\ url_pos' = 1
  /\ dl_try' = 0
  /\ gets' = [u \in {fetch_urls'[n] : n \in DOMAIN fetch_urls'} |-> 0]
  /\ job_pc' = "fetch_loop"
  /\ UNCHANGED <<notjob, image_urls, image_b64_list, min_required_images,
                 max_allowed_images, job_ret, succeeded>>

(* nothing to download: no room left (append_count <= 0) or no URL *)
JobSkipFetch ==
  /\ job_pc = "check"
  /\ Len(image_urls) + Len(image_b64_list) >= min_required_images
  /\ ~(append_count > 0 /\ Len(image_urls) > 0)
  /\ job_pc' = "send"
  /\ UNCHANGED <<notjob, image_urls, image_b64_list, min_required_images,
                 max_allowed_images, fetch_urls, fetched, url_pos, dl_try, job_ret,
                 succeeded, gets>>

(* for url in image_urls: for _ in range(3): await _download_image(url) *)
DownloadIssue ==
  /\ job_pc = "fetch_loop"
  /\ url_pos <= Len(fetch_urls)
  /\ dl_try < DownloadTries
  /\ job_pc' = "get"
  /\ gets' = [gets EXCEPT ![fetch_urls[url_pos]] = @ + 1]
  /\ UNCHANGED <<notjob, image_urls, image_b64_list, min_required_images,
                 max_allowed_images, fetch_urls, fetched, url_pos, dl_try, job_ret,
                 succeeded>>

(* three downloads of the URL returned None: the URL is dropped *)
DownloadGiveUp ==
  /\ job_pc = "fetch_loop"
  /\ url_pos <= Len(fetch_urls)
  /\ dl_try >= DownloadTries
  /\ url_pos' = url_pos + 1
  /\ dl_try' = 0
  /\ UNCHANGED <<notjob, job_pc, image_urls, image_b64_list, min_required_images,
                 max_allowed_images, fetch_urls, fetched, job_ret, succeeded, gets>>

(* content is not None: image_b64_list.append(content); break *)
GotContent ==
  /\ fetched' = Append(fetched, Payload(fetch_urls[url_pos]))
  /\ succeeded' = succeeded \cup {fetch_urls[url_pos]}
  /\ url_pos' = url_pos + 1
  /\ dl_try' = 0
  /\ job_pc' = "fetch_loop"
  /\ UNCHANGED gets

(* content is None: the next try of the same URL *)
GotNone ==
  /\ dl_try' = dl_try + 1
  /\ job_pc' = "fetch_loop"
  /\ UNCHANGED <<fetched, url_pos, succeeded, gets>>

(* what session.get can do, and _handle_image with the bytes: an image,   *)
(* bytes over 36 MB (None), or an exception of the request                *)
GetOutcomes == {"image", "oversize", "tls_error", "timeout", "error"}

(* _download_image: the first GET returned or raised *)
DownloadReturned ==
  /\ job_pc = "get"
  /\ \E o \in GetOutcomes :
       CASE o = "image" -> GotContent
         [] o \in {"oversize", "timeout", "error"} -> GotNone
         [] o = "tls_error" ->
              /\ job_pc' = "get_unverified"
              /\ gets' = [gets EXCEPT ![fetch_urls[url_pos]] = @ + 1]
              /\ UNCHANGED <<fetched, url_pos, dl_try, succeeded>>
  /\ UNCHANGED <<notjob, image_urls, image_b64_list, min_required_images,
                 max_allowed_images, fetch_urls, job_ret>>

(* _download_image: the GET with verify=False, made inside the handler of  *)
(* SSLError / CertificateVerifyError, returned or raised; an exception     *)
(* raised inside an except clause is not taken by the clauses beside it    *)
UnverifiedReturned ==
  /\ job_pc = "get_unverified"
  /\ \E o \in GetOutcomes :
       CASE o = "image" -> GotContent
         [] o = "oversize" -> GotNone
         [] o \in {"tls_error", "timeout", "error"} ->
              /\ job_pc' = "raised"
              /\ UNCHANGED <<fetched, url_pos, dl_try, succeeded, gets>>
  /\ UNCHANGED <<notjob, image_urls, image_b64_list, min_required_images,
                 max_allowed_images, fetch_urls, job_ret>>

(* fetch_images returned: extend image_b64_list; an empty list with       *)
(* min_images > 0 is an error                                             *)
JobFetched ==
  /\ job_pc = "fetch_loop"
  /\ url_pos > Len(fetch_urls)
  /\ image_b64_list' = image_b64_list \o fetched
  /\ IF Len(image_b64_list') = 0 /\ min_required_images > 0
       THEN /\ job_ret' = MsgAllDownloadsFailed
            /\ job_pc' = "done"
       ELSE /\ job_ret' = job_ret
            /\ job_pc' = "send"
  /\ UNCHANGED <<notjob, image_urls, min_required_images, max_allowed_images,
                 fetch_urls, fetched, url_pos, dl_try, succeeded, gets>>

(* await event.send(...), then await self._dispatch(...) is entered *)
JobDispatch ==
  /\ job_pc = "send"
  /\ job_pc' = "dispatch"
  /\ UNCHANGED <<notjob, image_urls, image_b64_list, min_required_images,
                 max_allowed_images, fetch_urls, fetched, url_pos, dl_try, job_ret,
                 succeeded, gets>>

JobNext ==
  \/ JobReadFiles
  \/ JobTooFewImages
  \/ JobStartFetch
  \/ JobSkipFetch
  \/ DownloadIssue
  \/ DownloadGiveUp
  \/ DownloadReturned
  \/ UnverifiedReturned
  \/ JobFetched
  \/ JobDispatch

JobSpec == JobInit /\ [][JobNext]_vars

(* ---------------- on_message, its job task, terminate ---------------- *)
(* what the handlers and terminate never write *)
notshutdown == <<dispatchvars, cancel_requested, jobvars, concvars, auxvars>>

ShutdownInit ==
  /\ DispatchIdle
  /\ JobIdle
  /\ ShutdownIdle
  /\ ConcurrentIdle
  /\ AuxIdle

(* a task that is not done *)
Outstanding(h) == task[h] \in {"running", "cancelling"}

(* a message reaches on_message; none is delivered once terminate has begun *)
MessageArrives(h) ==
  /\ handler_pc[h] = "absent"
  /\ term_pc = "idle"
  /\ handler_pc' = [handler_pc EXCEPT ![h] = "parsing"]
  /\ UNCHANGED <<notshutdown, task, running_tasks, term_pc, gathered, session_open>>

(* after its own awaits (collection mode, replies) the handler runs       *)
(* task = asyncio.create_task(self.job(...)); running_tasks[task_id] =    *)
(* task; and suspends in `await task`                                     *)
HandlerCreatesTask(h) ==
  /\ handler_pc[h] = "parsing"
  /\ task' = [task EXCEPT ![h] = "running"]
  /\ running_tasks' = running_tasks \cup {h}
  /\ handler_pc' = [handler_pc EXCEPT ![h] = "awaiting"]
  /\ UNCHANGED <<notshutdown, term_pc, gathered, session_open>>

(* job returns or raises *)
TaskEnds(h) ==
  /\ task[h] = "running"
  /\ task' = [task EXCEPT ![h] = "done"]
  /\ UNCHANGED <<notshutdown, handler_pc, running_tasks, term_pc, gathered, session_open>>

(* CancelledError is delivered at the await the task is suspended in *)
TaskCancelled(h) ==
  /\ task[h] = "cancelling"
  /\ task' = [task EXCEPT ![h] = "done"]
  /\ UNCHANGED <<notshutdown, handler_pc, running_tasks, term_pc, gathered, session_open>>

(* `await task` is over; finally: self.running_tasks.pop(task_id, None) *)
HandlerResumes(h) ==
  /\ handler_pc[h] = "awaiting"
  /\ task[h] = "done"
  /\ running_tasks' = running_tasks \ {h}
  /\ handler_pc' = [handler_pc EXCEPT ![h] = "done"]
  /\ UNCHANGED <<notshutdown, task, term_pc, gathered, session_open>>

(* terminate: task.cancel() for every task of running_tasks that is not   *)
(* done, then await asyncio.gather(...) of self.running_tasks.values()   *)
TerminateCancels ==
  /\ term_pc = "idle"
  /\ task' = [h \in Handlers |->
                IF h \in running_tasks /\ task[h] /= "done" THEN "cancelling" ELSE task[h]]
  /\ gathered' = running_tasks
  /\ term_pc' = "gathering"
  /\ UNCHANGED <<notshutdown, handler_pc, running_tasks, session_open>>

(* gather is over when the tasks handed to it are done; then              *)
(* self.running_tasks.clear() and await self.http_manager.close_session() *)
TerminateCloses ==
  /\ term_pc = "gathering"
  /\ \A h \in gathered : task[h] = "done"
  /\ running_tasks' = {}
  /\ session_open' = FALSE
  /\ term_pc' = "done"
  /\ UNCHANGED <<notshutdown, handler_pc, task, gathered>>

ShutdownNext ==
  \/ \E h \in Handlers : MessageArrives(h)
  \/ \E h \in Handlers : HandlerCreatesTask(h)
  \/ \E h \in Handlers : TaskEnds(h)
  \/ \E h \in Handlers : TaskCancelled(h)
  \/ \E h \in Handlers : HandlerResumes(h)
  \/ TerminateCancels
  \/ TerminateCloses

ShutdownSpec == ShutdownInit /\ [][ShutdownNext]_vars

(* ---------------- two generate_images calls at once ---------------- *)
(* Two dispatches run on the same provider instances and interleave at    *)
(* their awaits.  The code of a call between two awaits is a function of  *)
(* its locals and of the outcome of the await; `alone` applies the same   *)
(* function to the locals the call would have were it the only one.       *)
(* what the concurrent dispatches never write *)
notconc == <<dispatchvars, cancel_requested, jobvars, shutdownvars, auxvars>>

(* return from generate_images *)
Returned(l, imgs, e) == [l EXCEPT !.pc = "done", !.images = imgs, !.error = e]

(* len(provider_config.keys) of the Gemini provider *)
Keys == providers_config[GeminiName].keys

(* the head of the outer loop: the next key, if there is one *)
EnterKey(l, k) ==
  IF k < Keys
    THEN [l EXCEPT !.key_ = k, !.i = 0,
                   !.current_index = get_key_index(l.current_index, Keys)]
    ELSE [l EXCEPT !.key_ = k]

(* BaseProvider.generate_images up to its next adapter call or its return *)
RECURSIVE ToNextCall(_)
ToNextCall(l) ==
  IF l.key_ >= Keys THEN Returned(l, NoImages, ExhaustedError(l.err))
  ELSE IF l.i >= max_retry THEN ToNextCall(EnterKey(l, l.key_ + 1))
  ELSE [l EXCEPT !.pc = "calling"]

(* BaseProvider.generate_images from its entry *)
BaseBegin(l, start) ==
  IF Keys = 0 THEN Returned(l, NoImages, MsgNoKey)
  ELSE ToNextCall(EnterKey([l EXCEPT !.current_index = start, !.err = None], 0))

(* BaseProvider.generate_images after an adapter call *)
BaseAfter(l, o) ==
  LET m == [l EXCEPT !.err = o.err] IN
  IF Len(o.images) > 0 THEN Returned(m, o.images, None)
  ELSE IF BreakInner(smart_retry, o.status) THEN ToNextCall(EnterKey(m, m.key_ + 1))
  ELSE ToNextCall([m EXCEPT !.i = m.i + 1])

(* the head of the Vertex loop *)
VertexNext(l) ==
  IF l.vx_try < vertex_max_retry THEN [l EXCEPT !.pc = "calling"]
  ELSE Returned(l, NoImages, OrElse(l.err_msg, MsgVertexExhausted))

(* Vertex generate_images after _get_recaptcha_token (tok = 0: None) *)
VertexGotToken(l, tok) ==
  IF tok = 0 THEN Returned([l EXCEPT !.recaptcha_token = 0], NoImages, MsgTokenFailed)
  ELSE IF l.first
    THEN VertexNext([l EXCEPT !.recaptcha_token = tok, !.first = FALSE,
                              !.err_msg = None, !.vx_try = 0])
    ELSE VertexNext([l EXCEPT !.recaptcha_token = tok, !.vx_try = l.vx_try + 1])

(* Vertex generate_images after _call_api *)
VertexAfter(l, o) ==
  LET m == [l EXCEPT !.err_msg = o.err] IN
  IF Len(o.images) > 0 THEN Returned(m, o.images, None)
  ELSE IF o.status = TokenExpired THEN [m EXCEPT !.pc = "acquiring"]
  ELSE IF o.status = ContentBlocked THEN Returned(m, NoImages, o.err)
  ELSE VertexNext([m EXCEPT !.vx_try = m.vx_try + 1])

(* the adapter outcomes drawn for dispatch p: a sample of each adapter's *)
SampleOutcomes(kind, p) ==
  IF kind = GeminiName
    THEN {o \in GeminiSyncOutcomes(p) :
            /\ o.status \in {200, 401, 503}
            /\ o.err \in {None, "upstream_error", "no_image_data"}}
    ELSE {o \in VertexOutcomes(p) :
            /\ o.status \in {StatusNone, TokenExpired, ResourceExhausted, ContentBlocked}
            /\ o.err \in {None, "vertex_error", "no_image_data"}}

(* the generation request a call is about to make *)
NextAttempt(l) ==
  [key |-> l.current_index, key_ |-> l.key_, try |-> IF l.kind = GeminiName THEN l.i ELSE l.vx_try,
   token |-> l.recaptcha_token]

ConcurrentInit ==
  /\ NotDispatching
  /\ providers_config = ProviderConfigs(MaxKeys, FALSE)
  /\ max_retry = MaxRetry
  /\ smart_retry \in BOOLEAN
  /\ vertex_max_retry = MaxVertexRetry
  /\ JobIdle
  /\ ShutdownIdle
  /\ locals \in [Dispatches -> {NewLocals(GeminiName), NewLocals(VertexName)}]
  /\ alone = locals
  /\ issued = << >>
  /\ last_proc = 1
  /\ AuxIdle

(* mutant: the key index is kept on the provider instance, which the     *)
(* dispatches share: a call reads the index the last runner left         *)
KeyIndexShared(p) == locals[last_proc].current_index

(* current_index is a local of generate_images: a call reads its own *)
KeyIndexSeen(p) == locals[p].current_index

(* the locals dispatch p resumes with *)
Resumed(p) == [locals[p] EXCEPT !.current_index = KeyIndexSeen(p)]

(* dispatch p enters generate_images and runs to its first await *)
DispatchBegins(p) ==
  /\ locals[p].pc = "start"
  /\ IF locals[p].kind = GeminiName
       THEN \E start \in 0..(IF Keys = 0 THEN 0 ELSE Keys - 1) :
              /\ locals' = [locals EXCEPT ![p] = BaseBegin(locals[p], start)]
              /\ alone' = [alone EXCEPT ![p] = BaseBegin(alone[p], start)]
       ELSE /\ locals' = [locals EXCEPT ![p].pc = "acquiring"]
            /\ alone' = [alone EXCEPT ![p].pc = "acquiring"]
  /\ last_proc' = p
  /\ UNCHANGED <<notconc, issued>>

(* the adapter call of dispatch p returns; p runs to its next await *)
DispatchCallReturns(p) ==
  /\ locals[p].pc = "calling"
  /\ \E o \in SampleOutcomes(locals[p].kind, p) :
       IF locals[p].kind = GeminiName
         THEN /\ locals' = [locals EXCEPT ![p] = BaseAfter(Resumed(p), o)]
              /\ alone' = [alone EXCEPT ![p] = BaseAfter(alone[p], o)]
         ELSE /\ locals' = [locals EXCEPT ![p] = VertexAfter(Resumed(p), o)]
              /\ alone' = [alone EXCEPT ![p] = VertexAfter(alone[p], o)]
  /\ last_proc' = p
  /\ UNCHANGED <<notconc, issued>>

(* _get_recaptcha_token of dispatch p returns a fresh token or None *)
DispatchTokenReturns(p) ==
  /\ locals[p].pc = "acquiring"
  /\ \E got \in BOOLEAN :
       LET tok == IF got THEN Len(issued) + 1 ELSE 0 IN
       /\ issued' = IF got THEN Append(issued, p) ELSE issued
       /\ locals' = [locals EXCEPT ![p] = VertexGotToken(Resumed(p), tok)]
       /\ alone' = [alone EXCEPT ![p] = VertexGotToken(alone[p], tok)]
  /\ last_proc' = p
  /\ UNCHANGED notconc

ConcurrentNext ==
  \/ \E p \in Dispatches : DispatchBegins(p)
  \/ \E p \in Dispatches : DispatchCallReturns(p)
  \/ \E p \in Dispatches : DispatchTokenReturns(p)

ConcurrentSpec == ConcurrentInit /\ [][ConcurrentNext]_vars

(* ---------------- the parameters of one request ---------------- *)
(* on_message builds params from the preset and the user's message, job   *)
(* and the request builders read them with params.get(key, default).      *)
(* what the steps of a request never write *)
notreq == <<dispatchvars, cancel_requested, jobvars, shutdownvars, concvars, imgvars,
            pairvars,
            parsevars,
            promptvars>>

(* dict.get(k, dflt) *)
Get(dct, k, dflt) == IF k \in DOMAIN dct THEN dct[k] ELSE dflt

(* a.update(b) *)
Update(a, b) ==
  [k \in (DOMAIN a) \cup (DOMAIN b) |-> IF k \in DOMAIN b THEN b[k] ELSE a[k]]

(* dct[k] = v *)
Put(dct, k, v) == [x \in (DOMAIN dct) \cup {k} |-> IF x = k THEN v ELSE dct[x]]

(* the generation parameters followed here, with two values each *)
ParamKeys == {"min_images", "aspect_ratio", "image_size"}

FullDicts ==
  [min_images : {1, 2}, aspect_ratio : {"default", "16:9"}, image_size : {"1K", "4K"}]

(* dicts that give a value to some of the parameters *)
PartialDicts == {[k \in K |-> full[k]] : full \in FullDicts, K \in SUBSET ParamKeys}

RequestInit ==
  /\ DispatchIdle
  /\ JobIdle
  /\ ShutdownIdle
  /\ ConcurrentIdle
  /\ ImageIdle
  /\ PairIdle
  /\ ParseIdle
  /\ PromptIdle
  /\ preset \in PartialDicts
  /\ user_params \in PartialDicts
  /\ def_prompt_config \in FullDicts
  /\ has_user_text \in BOOLEAN
  /\ preset_append \in BOOLEAN
  /\ model_gemini3 \in BOOLEAN
  /\ params = EmptyDict
  /\ req_pc = "message"
  /\ min_images_read = 0
  /\ context = EmptyDict

(* params = prompt_dict[cmd].copy(); the user's parameters are merged in  *)
(* when the preset prompt holds {{user_text}}, which preset_append adds   *)
OnMessageParams ==
  /\ req_pc = "message"
  /\ params' = IF has_user_text \/ preset_append
                 THEN Update(preset, user_params)
                 ELSE preset
  /\ req_pc' = "job"
  /\ UNCHANGED <<notreq, preset, user_params, def_prompt_config, has_user_text,
                 preset_append, model_gemini3, min_images_read, context>>

(* min_required_images = params.get("min_images", prompt_config.min_images) *)
JobReadsParams ==
  /\ req_pc = "job"
  /\ min_images_read' = Get(params, "min_images", def_prompt_config.min_images)
  /\ req_pc' = "build"
  /\ UNCHANGED <<notreq, preset, user_params, def_prompt_config, has_user_text,
                 preset_append, model_gemini3, params, context>>

(* mutant: the aspect ratio is written whatever its value *)
AspectRatioAlways(aspect_ratio) == TRUE

(* if aspect_ratio != "default" *)
AspectRatioGiven(aspect_ratio) == aspect_ratio /= "default"

(* the end of both builders: the aspect ratio, then the gemini-3 part;    *)
(* each assignment replaces generationConfig["imageConfig"] as a whole    *)
ImageConfigured(generationConfig) ==
  LET aspect_ratio == Get(params, "aspect_ratio", def_prompt_config.aspect_ratio)
      image_size == Get(params, "image_size", def_prompt_config.image_size)
      withRatio == IF AspectRatioGiven(aspect_ratio)
                     THEN Put(generationConfig, "imageConfig", [aspectRatio |-> aspect_ratio])
                     ELSE generationConfig
  IN IF model_gemini3
       THEN Put(withRatio, "imageConfig", [imageSize |-> image_size])
       ELSE withRatio

(* GeminiProvider._build_gemini_context: generationConfig *)
BuildGeminiContext ==
  /\ req_pc = "build"
  /\ context' = ImageConfigured(EmptyDict)
  /\ req_pc' = "built_gemini"
  /\ UNCHANGED <<notreq, preset, user_params, def_prompt_config, has_user_text,
                 preset_append, model_gemini3, params, min_images_read>>

(* VertexAIAnonymousProvider._build_vertex_ai_body: generationConfig *)
BuildVertexBody ==
  /\ req_pc = "build"
  /\ context' = ImageConfigured(
        [imageConfig |-> [imageOutputOptions |-> "image/png",
                          personGeneration |-> "ALLOW_ALL"]])
  /\ req_pc' = "built_vertex"
  /\ UNCHANGED <<notreq, preset, user_params, def_prompt_config, has_user_text,
                 preset_append, model_gemini3, params, min_images_read>>

RequestNext ==
  \/ OnMessageParams
  \/ JobReadsParams
  \/ BuildGeminiContext
  \/ BuildVertexBody

RequestSpec == RequestInit /\ [][RequestNext]_vars

(* ---------------- Downloader._handle_image on a batch ---------------- *)
(* fetch_images over URLs whose GET succeeds: every try of a URL hands    *)
(* the same bytes to _handle_image.  Bytes are told by their length and   *)
(* by what PIL does with them: Image.open raises or names a format, and   *)
(* the conversion of the first GIF frame raises or not.                   *)
(* what the steps of the image processor never write *)
notimg == <<dispatchvars, cancel_requested, jobvars, shutdownvars, concvars, reqvars,
            pairvars,
            parsevars,
            promptvars>>

(* 36 * 1024 * 1024 *)
SizeLimit == 36 * 1024 * 1024

(* what the bytes can be: lengths around the limit, and the images PIL    *)
(* tells apart                                                            *)
ImageKinds ==
  {[opens |-> TRUE, format |-> "JPEG", frames |-> 1, converts |-> TRUE],
   [opens |-> TRUE, format |-> "PNG", frames |-> 1, converts |-> TRUE],
   [opens |-> TRUE, format |-> "GIF", frames |-> 1, converts |-> TRUE],
   [opens |-> TRUE, format |-> "GIF", frames |-> 2, converts |-> TRUE],
   [opens |-> TRUE, format |-> "GIF", frames |-> 2, converts |-> FALSE],
   [opens |-> FALSE, format |-> "", frames |-> 0, converts |-> FALSE]}

ImageBytes ==
  {[size |-> n, image |-> k] : n \in {SizeLimit - 1, SizeLimit, SizeLimit + 1},
                               k \in ImageKinds}

(* str.lower() on the format names *)
Lower(fmt) ==
  CASE fmt = "JPEG" -> "jpeg"
    [] fmt = "PNG" -> "png"
    [] fmt = "GIF" -> "gif"
    [] OTHER -> fmt

(* f"image/{subtype}" *)
Mime(subtype) == <<"image", subtype>>

(* base64.b64encode(x).decode("utf-8") *)
B64(x) == [b64 |-> x]

(* _handle_image returns None *)
NoPayload == [mime |-> <<"none", "">>, data |-> B64(0)]

(* mutant: the limit itself is rejected *)
OverLimitInclusive(n) == n >= SizeLimit

(* len(image_bytes) > 36 * 1024 * 1024 *)
OverLimit(n) == n > SizeLimit

(* mutant: the last frame is saved *)
LastFramePng(image_bytes) ==
  [png_of |-> image_bytes, frame |-> image_bytes.image.frames - 1]

(* img.seek(0); img.convert("RGBA"); img.save(buf, format="PNG") *)
FirstFramePng(image_bytes) == [png_of |-> image_bytes, frame |-> 0]

(* Downloader._handle_image *)
_handle_image(image_bytes) ==
  IF OverLimit(image_bytes.size) THEN NoPayload
  ELSE IF ~image_bytes.image.opens
    THEN [mime |-> Mime("gif"), data |-> B64(image_bytes)]
  ELSE IF image_bytes.image.format /= "GIF"
    THEN [mime |-> Mime(Lower(image_bytes.image.format)), data |-> B64(image_bytes)]
  ELSE IF image_bytes.image.converts
    THEN [mime |-> Mime("png"), data |-> B64(FirstFramePng(image_bytes))]
    ELSE [mime |-> Mime("gif"), data |-> B64(image_bytes)]

ImageInit ==
  /\ DispatchIdle
  /\ JobIdle
  /\ ShutdownIdle
  /\ ConcurrentIdle
  /\ RequestIdle
  /\ PairIdle
  /\ ParseIdle
  /\ PromptIdle
  /\ \E n \in 1..MaxUrls : batch \in [1..n -> ImageBytes]
  /\ img_pos = 1
  /\ img_try = 0
  /\ handled = << >>
  /\ opened = {}

(* content = await self._download_image(url): the bytes arrive and go     *)
(* through _handle_image; a payload is appended and ends the tries        *)
ImageDownloaded ==
  /\ img_pos <= Len(batch)
  /\ img_try < DownloadTries
  /\ LET content == _handle_image(batch[img_pos]) IN
       /\ opened' = IF OverLimit(batch[img_pos].size) THEN opened
                    ELSE opened \cup {img_pos}
       /\ IF content /= NoPayload
            THEN /\ handled' = Append(handled, content)
                 /\ img_pos' = img_pos + 1
                 /\ img_try' = 0
            ELSE /\ handled' = handled
                 /\ img_pos' = img_pos
                 /\ img_try' = img_try + 1
  /\ UNCHANGED <<notimg, batch>>

(* the three tries of a URL gave None: the next URL *)
ImageSkipped ==
  /\ img_pos <= Len(batch)
  /\ img_try = DownloadTries
  /\ img_pos' = img_pos + 1
  /\ img_try' = 0
  /\ UNCHANGED <<notimg, batch, handled, opened>>

ImageNext ==
  \/ ImageDownloaded
  \/ ImageSkipped

ImageSpec == ImageInit /\ [][ImageNext]_vars

(* ---------------- two dispatches on the same outcomes ---------------- *)
(* BaseProvider.generate_images is run twice with the same key list and   *)
(* the same outcome for every (key, attempt); each run draws its own      *)
(* random.randrange(key_list_len).                                        *)
(* what the two runs never write *)
notpair == <<dispatchvars, cancel_requested, jobvars, shutdownvars, concvars, reqvars,
             imgvars,
            parsevars,
            promptvars>>

(* what an adapter call can come to *)
OutcomeKinds == {"images", "retryable", "final"}

(* the (images_result, status, err) of the call with key index k, try t *)
TableOutcome(k, t) ==
  CASE outcome_table[<<k, t>>] = "images" ->
         [images |-> ImagesOf(k * MaxRetry + t + 1), status |-> 200, err |-> None]
    [] outcome_table[<<k, t>>] = "retryable" ->
         [images |-> NoImages, status |-> 503, err |-> "upstream_error"]
    [] OTHER ->
         [images |-> NoImages, status |-> 401, err |-> "upstream_error"]

(* a dispatch that has not run *)
NotRun ==
  [done |-> FALSE, attempts |-> << >>, key |-> 0, images |-> NoImages, error |-> None]

(* generate_images from its locals l to its return: the (key, try) of     *)
(* every call, the key of the call that gave the images, the result       *)
RECURSIVE RunFrom(_, _)
RunFrom(l, attempts) ==
  IF l.pc = "done"
    THEN [done |-> TRUE, attempts |-> attempts, key |-> l.current_index,
          images |-> l.images, error |-> l.error]
    ELSE RunFrom(BaseAfter(l, TableOutcome(l.current_index, l.i)),
                 Append(attempts, <<l.current_index, l.i>>))

PairInit ==
  /\ NotDispatching
  /\ \E nkeys \in 1..MaxKeys : providers_config = ProviderConfigs(nkeys, FALSE)
  /\ max_retry \in 1..MaxRetry
  /\ smart_retry \in BOOLEAN
  /\ vertex_max_retry = 0
  /\ JobIdle
  /\ ShutdownIdle
  /\ ConcurrentIdle
  /\ RequestIdle
  /\ ImageIdle
  /\ ParseIdle
  /\ PromptIdle
  /\ outcome_table \in [(0..(Keys - 1)) \X (0..(max_retry - 1)) -> OutcomeKinds]
  /\ runs = [p \in Dispatches |-> NotRun]

(* one dispatch runs generate_images from entry to return *)
DispatchRuns(p) ==
  /\ ~runs[p].done
  /\ \E start \in 0..(Keys - 1) :
       runs' = [runs EXCEPT ![p] = RunFrom(BaseBegin(NewLocals(GeminiName), start), << >>)]
  /\ UNCHANGED <<notpair, outcome_table>>

PairNext == \E p \in Dispatches : DispatchRuns(p)

PairSpec == PairInit /\ [][PairNext]_vars

(* ---------------- GeminiProvider: parsing of a 200 response ---------------- *)
(* what the parsing of a response never writes *)
notparse == <<dispatchvars, cancel_requested, jobvars, shutdownvars, concvars, reqvars,
              imgvars, pairvars,
            promptvars>>

MaxCandidates == 2
MaxParts == 2

(* item.get("finishReason", ""): "" stands for a candidate without the key *)
FinishReasons == {"STOP", "SAFETY", ""}

(* a candidate: its finishReason and the number of its parts that hold    *)
(* inlineData with data; the other parts are skipped by both transports   *)
Candidates == [finishReason : FinishReasons, parts : 0..MaxParts]

(* (data["mimeType"], data["data"]) of part j of candidate k *)
InlineData(k, j) == <<k, j>>

(* the pairs appended for the parts of candidate k *)
PartsOf(cands, k) == [j \in 1..cands[k].parts |-> InlineData(k, j)]

(* the error message of a return value: its text and what it quotes *)
ErrMsg(text, quoted) == [text |-> text, quoted |-> quoted]
NoErrMsg == ErrMsg(None, "")

(* return b64_images, 200, None / return None, 200, message *)
Images200(b64_images) == [images |-> b64_images, status |-> 200, err |-> NoErrMsg]
Failed200(text, quoted) == [images |-> NoImages, status |-> 200, err |-> ErrMsg(text, quoted)]

(* _call_api, status 200: the loop over result.get("candidates", []) from *)
(* candidate k on, then the test of b64_images                            *)
RECURSIVE ParseSync(_, _, _)
ParseSync(result, k, b64_images) ==
  IF k <= Len(result.candidates)
    THEN IF result.candidates[k].finishReason = "STOP"
           THEN ParseSync(result, k + 1, b64_images \o PartsOf(result.candidates, k))
           ELSE Failed200("finish_reason", result.candidates[k].finishReason)
    ELSE IF b64_images = << >>
           THEN IF result.promptFeedback
                  THEN Failed200("blocked_by_safety", "blockReason")
                  ELSE Failed200("no_image_data", "")
           ELSE Images200(b64_images)

(* _call_stream_api, status 200: the candidates of the data lines of the  *)
(* accumulated body, in order; finishReason is not read                   *)
RECURSIVE StreamImages(_, _)
StreamImages(result, k) ==
  IF k <= Len(result.candidates)
    THEN PartsOf(result.candidates, k) \o StreamImages(result, k + 1)
    ELSE << >>

ParseStream(result) ==
  IF StreamImages(result, 1) = << >>
    THEN Failed200("no_image_data", "")
    ELSE Images200(StreamImages(result, 1))

(* a 200 response arrived over one of the two transports *)
ParseInit ==
  /\ DispatchIdle
  /\ JobIdle
  /\ ShutdownIdle
  /\ ConcurrentIdle
  /\ RequestIdle
  /\ ImageIdle
  /\ PairIdle
  /\ PromptIdle
  /\ api_result \in [candidates : SeqsUpTo(Candidates, MaxCandidates),
                     promptFeedback : BOOLEAN]
  /\ via_stream \in BOOLEAN
  /\ parsed = EmptyDict
  /\ parse_pc = "response"

(* GeminiProvider._call_api returns *)
CallApiReturns ==
  /\ parse_pc = "response"
  /\ ~via_stream
  /\ parsed' = ParseSync(api_result, 1, << >>)
  /\ parse_pc' = "returned"
  /\ UNCHANGED <<notparse, api_result, via_stream>>

(* GeminiProvider._call_stream_api returns *)
CallStreamApiReturns ==
  /\ parse_pc = "response"
  /\ via_stream
  /\ parsed' = ParseStream(api_result)
  /\ parse_pc' = "returned"
  /\ UNCHANGED <<notparse, api_result, via_stream>>

ParseNext ==
  \/ CallApiReturns
  \/ CallStreamApiReturns

ParseSpec == ParseInit /\ [][ParseNext]_vars

(* ---------------- preset prompts: init_prompts, lm添加, lm删除 ---------------- *)
(* An entry of prompt_list is a string "<cmd> <prompt and parameters>"     *)
(* whose first word is a trigger word or a bracketed list "[w1,w2]"; it is *)
(* kept here as that first word, taken apart, and the rest of the string.  *)
(* what the administration commands never write *)
notprompt == <<dispatchvars, cancel_requested, jobvars, shutdownvars, concvars, reqvars,
               imgvars, pairvars, parsevars>>

MaxPrompts == 2

TriggerWords == {"a", "b"}
PromptTexts == {"p", "q"}

(* "w text" and "[w1,...] text" *)
SingleEntry(w, prompt_str) == [bracketed |-> FALSE, cmds |-> <<w>>, prompt_str |-> prompt_str]
MultiEntry(cmds, prompt_str) == [bracketed |-> TRUE, cmds |-> cmds, prompt_str |-> prompt_str]

PromptEntries ==
  {SingleEntry(w, t) : w \in TriggerWords, t \in PromptTexts}
  \cup {MultiEntry(c, t) : c \in SeqsOfLen(TriggerWords, 1) \cup SeqsOfLen(TriggerWords, 2),
                           t \in PromptTexts}

Words(q) == {q[n] : n \in DOMAIN q}

(* cmd_raw[1:-1].split(",") or [cmd_raw]; "".split(",") is [""] *)
CmdList(v) == IF v.bracketed /\ v.cmds = << >> THEN <<"">> ELSE v.cmds

(* parsing_prompt_params(item)[1], told by the text it was parsed from *)
ParsedParams(v) == [prompt |-> v.prompt_str]

(* init_prompts: prompt_dict[cmd] = params for every cmd of every entry,  *)
(* in the order of prompt_list, a later entry replacing an earlier one    *)
RECURSIVE init_prompts(_)
init_prompts(items) ==
  IF items = << >> THEN EmptyDict
  ELSE LET before == init_prompts(SubSeq(items, 1, Len(items) - 1))
           item == items[Len(items)]
       IN [cmd \in DOMAIN before \cup Words(CmdList(item)) |->
             IF cmd \in Words(CmdList(item)) THEN ParsedParams(item) ELSE before[cmd]]

(* del items[k] *)
RemoveAt(items, k) == SubSeq(items, 1, k - 1) \o SubSeq(items, k + 1, Len(items))

(* cmd == trigger_word *)
IsSingle(v, trigger_word) == ~v.bracketed /\ v.cmds[1] = trigger_word

(* cmd.startswith("[") and cmd.endswith("]") and trigger_word in cmd_list *)
IsMultiWith(v, trigger_word) == v.bracketed /\ trigger_word \in Words(CmdList(v))

(* cmd_list.remove(trigger_word), then the entry rebuilt: one word left   *)
(* gives the single form, otherwise the bracketed form                    *)
WithoutTrigger(v, trigger_word) ==
  LET first == CHOOSE n \in DOMAIN v.cmds :
                 /\ v.cmds[n] = trigger_word
                 /\ \A m \in 1..(n - 1) : v.cmds[m] /= trigger_word
      cmd_list == RemoveAt(v.cmds, first)
  IN IF Len(cmd_list) = 1
       THEN SingleEntry(cmd_list[1], v.prompt_str)
       ELSE MultiEntry(cmd_list, v.prompt_str)

(* lm添加 with trigger_word in prompt_dict: the loop over prompt_list from *)
(* entry k on; without a matching entry the list is left as it is         *)
RECURSIVE UpdatedFrom(_, _, _, _)
UpdatedFrom(items, trigger_word, build_prompt, k) ==
  IF k > Len(items) THEN items
  ELSE IF IsSingle(items[k], trigger_word)
    THEN [items EXCEPT ![k] = build_prompt]
  ELSE IF IsMultiWith(items[k], trigger_word)
    THEN Append([items EXCEPT ![k] = WithoutTrigger(items[k], trigger_word)], build_prompt)
    ELSE UpdatedFrom(items, trigger_word, build_prompt, k + 1)

(* the preset prompts after __init__ *)
PromptInit ==
  /\ DispatchIdle
  /\ JobIdle
  /\ ShutdownIdle
  /\ ConcurrentIdle
  /\ RequestIdle
  /\ ImageIdle
  /\ PairIdle
  /\ ParseIdle
  /\ prompt_list \in SeqsUpTo(PromptEntries, MaxPrompts)
  /\ prompt_dict = init_prompts(prompt_list)

(* lm添加 <trigger_word>, answered with the prompt text: the entry is      *)
(* added or updated, then save_config() and init_prompts()                *)
add_prompt_command(trigger_word, text) ==
  /\ Len(prompt_list) <= MaxPrompts
  /\ prompt_list' =
       IF trigger_word \in DOMAIN prompt_dict
         THEN UpdatedFrom(prompt_list, trigger_word, SingleEntry(trigger_word, text), 1)
         ELSE Append(prompt_list, SingleEntry(trigger_word, text))
  /\ prompt_dict' = init_prompts(prompt_list')
  /\ UNCHANGED notprompt

(* the answers to the question asked for a multi-trigger entry; no answer *)
(* within 30 s is the timeout                                             *)
Replies == {"A", "B", "C", "timeout"}

(* lm删除: the loop over prompt_list from entry k on.  A single entry is   *)
(* deleted and the command returns; for a multi-trigger entry the waiter  *)
(* acts on the reply and the loop goes on with the next index of the list *)
(* as it is then.  The set of (prompt_list, prompt_dict) it can end with. *)
RECURSIVE DeleteFrom(_, _, _, _)
DeleteFrom(items, dict, trigger_word, k) ==
  IF k > Len(items) THEN {[prompt_list |-> items, prompt_dict |-> dict]}
  ELSE IF IsSingle(items[k], trigger_word)
    THEN {[prompt_list |-> RemoveAt(items, k),
           prompt_dict |-> init_prompts(RemoveAt(items, k))]}
  ELSE IF IsMultiWith(items[k], trigger_word)
    THEN UNION {
           CASE reply = "A" ->
                  LET changed == [items EXCEPT ![k] = WithoutTrigger(items[k], trigger_word)]
                  IN DeleteFrom(changed, init_prompts(changed), trigger_word, k + 1)
             [] reply = "B" ->
                  DeleteFrom(RemoveAt(items, k), dict, trigger_word, k + 1)
             [] OTHER ->
                  DeleteFrom(items, dict, trigger_word, k + 1)
           : reply \in Replies}
    ELSE DeleteFrom(items, dict, trigger_word, k + 1)

(* lm删除 <trigger_word> for a trigger word of prompt_dict *)
del_prompt_command(trigger_word) ==
  /\ trigger_word \in DOMAIN prompt_dict
  /\ \E end \in DeleteFrom(prompt_list, prompt_dict, trigger_word, 1) :
       /\ prompt_list' = end.prompt_list
       /\ prompt_dict' = end.prompt_dict
  /\ UNCHANGED notprompt

PromptNext ==
  \/ \E w \in TriggerWords, t \in PromptTexts : add_prompt_command(w, t)
  \/ \E w \in TriggerWords : del_prompt_command(w)

PromptSpec == PromptInit /\ [][PromptNext]_vars

(* ======================================================================= *)
(* Properties                                                              *)
(* ======================================================================= *)
(* the generation requests (indices of calls) of the provider at p *)
CallsAt(p) == {n \in 1..Len(calls) : calls[n].pos = p}

(* those made with key index k *)
CallsWith(p, k) == {n \in CallsAt(p) : calls[n].key = k}

(* those made in outer iteration ord *)
CallsIn(p, ord) == {n \in CallsAt(p) : calls[n].key_ = ord}

(* the provider at pos runs BaseProvider.generate_images with N >= 1 keys *)
InKeyRotation ==
  /\ pc \in {"key_loop", "retry_loop", "calling", "provider_ret"}
  /\ CurrentConfig.api_type = "Gemini"
  /\ CurrentConfig.keys >= 1

(* BaseProvider.generate_images has returned without images, keys used up *)
KeysExhausted ==
  /\ InKeyRotation
  /\ pc = "provider_ret"
  /\ Len(images_result) = 0

(* the Vertex provider's generate_images is running or has just returned *)
InVertex ==
  /\ pc \in {"vertex_enter", "rc_loop", "anchor_calling", "reload", "reload_calling",
             "vertex_loop", "vertex_calling", "provider_ret"}
  /\ CurrentConfig.api_type = "Vertex_AI_Anonymous"

(* this step is the return of an adapter call that yielded images *)
AdapterSucceeded ==
  \/ pc = "calling" /\ err' = None
  \/ pc = "vertex_calling" /\ err_msg' = None

(* C1: as soon as one adapter call returns a non-empty image list, the    *)
(* dispatch returns exactly those images with no error, and no further    *)
(* request (retry, key or provider) is issued: the images held by the     *)
(* dispatcher are always those of the last request issued.                *)
C1_SuccessState ==
  Len(images_result) > 0 =>
    /\ pc \in {"provider_ret", "done"}
    /\ in_flight = 0
    /\ images_result = ImagesOf(Len(calls))
    /\ dispatch_err = None
    /\ pc = "done" => ret = [images |-> images_result, err |-> None]

C1_FirstSuccessReturns ==
  /\ []C1_SuccessState
  /\ [][AdapterSucceeded =>
          /\ pc' = "provider_ret"
          /\ images_result' = ImagesOf(Len(calls))
          /\ calls' = calls]_vars

C1_Witness ==
  /\ pc = "done"
  /\ Len(ret.images) > 0
  /\ Len(calls) >= 2
  /\ pos < Len(active_providers)

(* C2: with N >= 1 keys and no success the engine runs exactly N outer    *)
(* iterations, one per key, in cyclic order index -> (index + 1) mod N,   *)
(* every request of an iteration uses that iteration's key, and no key    *)
(* gets more than max_retry requests.                                     *)
C2_KeyRotationCoverage ==
  InKeyRotation =>
    LET N == CurrentConfig.keys IN
    /\ Len(visited) <= N
    /\ \A a, b \in 1..Len(visited) : a /= b => visited[a] /= visited[b]
    /\ \A a \in 1..(Len(visited) - 1) : visited[a + 1] = (visited[a] + 1) % N
    /\ \A n \in CallsAt(pos) : calls[n].key = visited[calls[n].key_ + 1]
    /\ \A k \in 0..(N - 1) : Cardinality(CallsWith(pos, k)) <= max_retry
    /\ KeysExhausted =>
         /\ key_ = N
         /\ Len(visited) = N
         /\ {visited[a] : a \in 1..N} = 0..(N - 1)

C2_Witness ==
  /\ KeysExhausted
  /\ CurrentConfig.keys >= 2
  /\ Cardinality(CallsAt(pos)) >= 2

(* C3: with smart retry on, the return of a request with a non-retryable  *)
(* status ends the inner loop of that key: the engine moves to the next   *)
(* outer iteration, and when that request was the first of the key, the   *)
(* key has had exactly one request.                                       *)
C3_SmartRetryShortCircuit ==
  [][(pc = "calling" /\ smart_retry /\ status' \in NO_RETRY_STATUS_CODES) =>
        /\ pc' = "key_loop"
        /\ key_' = key_ + 1
        /\ calls' = calls
        /\ Cardinality(CallsIn(pos, key_)) = i + 1
        /\ i = 0 => Cardinality(CallsWith(pos, current_index)) = 1]_vars

C3_Witness ==
  /\ pc = "key_loop"
  /\ smart_retry
  /\ status \in NO_RETRY_STATUS_CODES
  /\ i = 0
  /\ max_retry >= 2
  /\ Cardinality(CallsWith(pos, current_index)) = 1

(* C4: with smart retry off, every key that was left without success got  *)
(* exactly max_retry requests, whatever the statuses; with N keys and no  *)
(* success the engine makes exactly N * max_retry requests.               *)
C4_FullBudgetWithoutSmartRetry ==
  (InKeyRotation /\ ~smart_retry) =>
    /\ \A ord \in 0..(key_ - 1) : Cardinality(CallsIn(pos, ord)) = max_retry
    /\ KeysExhausted =>
         /\ Cardinality(CallsAt(pos)) = CurrentConfig.keys * max_retry
         /\ \A k \in 0..(CurrentConfig.keys - 1) :
              Cardinality(CallsWith(pos, k)) = max_retry

C4_Witness ==
  /\ KeysExhausted
  /\ ~smart_retry
  /\ CurrentConfig.keys >= 2
  /\ max_retry >= 2
  /\ status \in NO_RETRY_STATUS_CODES

(* C5: at most one request is in flight; providers are entered in the    *)
(* order of the list and never re-entered, requests are made only for the *)
(* provider entered last, and within a provider they are ordered by key   *)
(* of the rotation, then by attempt; a key that was left is not used      *)
(* again.                                                                 *)
C5_StrictOrder ==
  /\ in_flight \in {0, 1}
  /\ \A a, b \in 1..Len(tried) : a < b => tried[a].pos < tried[b].pos
  /\ \A n \in 1..Len(calls) :
       /\ calls[n].pos = tried[Len(tried)].pos
       /\ tried[Len(tried)].called
  /\ \A a, b \in 1..Len(calls) :
       a < b =>
         \/ /\ calls[a].key_ < calls[b].key_
            /\ calls[a].key /= calls[b].key
         \/ /\ calls[a].key_ = calls[b].key_
            /\ calls[a].key = calls[b].key
            /\ calls[a].try < calls[b].try

C5_Witness ==
  /\ Len(tried) >= 2
  /\ tried[1].called
  /\ \E a, b \in 1..Len(calls) : calls[a].key /= calls[b].key
  /\ \E a, b \in 1..Len(calls) : calls[a].key = calls[b].key /\ a /= b

(* C6: the pair (images, error) returned by the dispatcher is either      *)
(* (non-empty images, no error) or (no images, non-empty error message).  *)
C6_CanonicalResult ==
  pc = "done" =>
    \/ Len(ret.images) > 0 /\ ret.err = None
    \/ Len(ret.images) = 0 /\ Truthy(ret.err)

(* this step passes over a provider name that has no configuration *)
AtUnknownName ==
  /\ pc = "dispatch"
  /\ pos <= Len(active_providers)
  /\ ~Configured(active_providers[pos])

(* C7: a provider name without configuration is passed over with no       *)
(* request and without ending the dispatch; the dispatch only ends        *)
(* without images after every name of the list has been passed, and no    *)
(* request is ever made for an unconfigured name.                         *)
C7_UnknownProviderSkipped ==
  /\ [][AtUnknownName =>
          /\ pc' = "dispatch"
          /\ pos' = pos + 1
          /\ calls' = calls
          /\ in_flight' = in_flight
          /\ ret' = ret]_vars
  /\ [](\A n \in 1..Len(tried) : Configured(active_providers[tried[n].pos]))
  /\ [](\A n \in 1..Len(calls) : Configured(active_providers[calls[n].pos]))
  /\ []((pc = "done" /\ Len(ret.images) = 0) =>
          /\ pos = Len(active_providers) + 1
          /\ {tried[n].pos : n \in 1..Len(tried)}
               = {k \in 1..Len(active_providers) : Configured(active_providers[k])})
  /\ []((pc = "done" /\ Len(ret.images) > 0) =>
          /\ ret.images = ImagesOf(Len(calls))
          /\ calls[Len(calls)].pos = pos)

C7_Witness ==
  /\ pc = "done"
  /\ Len(ret.images) > 0
  /\ pos >= 2
  /\ ~Configured(active_providers[1])

(* C8: when no provider name of the request resolves to a configuration   *)
(* (the empty list included), the dispatcher fails with the "no provider  *)
(* available" error and makes no request.                                 *)
C8_NoProviderAvailable ==
  (pc = "done" /\ \A k \in 1..Len(active_providers) : ~Configured(active_providers[k])) =>
    /\ ret = [images |-> NoImages, err |-> MsgNoProvider]
    /\ calls = << >>

(* C9: when the keys are used up without success, generate_images returns *)
(* no images and the message of the last request made (the message that   *)
(* came with the last status), or the generic message when no request was *)
(* made.                                                                  *)
C9_LastErrorReturned ==
  KeysExhausted =>
    IF CallsAt(pos) = {}
      THEN dispatch_err = MsgKeysExhausted
      ELSE /\ dispatch_err = err
           /\ dispatch_err /= MsgKeysExhausted
           /\ [images |-> NoImages, status |-> status, err |-> dispatch_err]
                \in AdapterOutcomes

C9_Witness ==
  /\ KeysExhausted
  /\ Cardinality(CallsAt(pos)) >= 3
  /\ dispatch_err = "timeout"

(* C10: in the Vertex provider a generation attempt that returns status   *)
(* 999 ends generate_images at once with the message of that attempt: no  *)
(* further generation request and no token exchange follows, whatever     *)
(* budget is left.                                                        *)
C10_ContentBlockAborts ==
  /\ [][(pc = "vertex_calling" /\ status' = ContentBlocked) =>
          /\ pc' = "provider_ret"
          /\ images_result' = NoImages
          /\ dispatch_err' = err_msg'
          /\ calls' = calls
          /\ in_flight' = 0]_vars
  /\ []((InVertex /\ status = ContentBlocked) => pc = "provider_ret")

C10_Witness ==
  /\ InVertex
  /\ pc = "provider_ret"
  /\ status = ContentBlocked
  /\ vx_try + 1 < vertex_max_retry
  /\ dispatch_err = err_msg
  /\ in_flight = 0

(* C11: in the Vertex provider a generation attempt that fails with       *)
(* status 3 is followed by one token acquisition before anything else;    *)
(* every attempt carries the token in use, and the attempt that follows   *)
(* a status 3 carries the token of that one acquisition, which no earlier *)
(* attempt carried; after any other failure the token is kept.            *)
C11_TokenRefreshOnExpiry ==
  /\ []((InVertex /\ pc \in {"vertex_loop", "vertex_calling"}) =>
          /\ recaptcha_token = tokens
          /\ tokens >= 1)
  /\ [][(pc = "vertex_calling" /\ status' = TokenExpired) =>
          /\ pc' = "rc_loop"
          /\ rc_site' = "refresh"
          /\ rc_try' = 0
          /\ calls' = calls]_vars
  /\ [][(pc = "vertex_loop" /\ pc' = "vertex_calling") =>
          LET c == calls'[Len(calls')] IN
          /\ c.token = recaptcha_token
          /\ Len(calls) > 0 =>
               IF status = TokenExpired
                 THEN /\ c.token = calls[Len(calls)].token + 1
                      /\ \A n \in 1..Len(calls) : calls[n].token /= c.token
                 ELSE c.token = calls[Len(calls)].token]_vars

C11_Witness ==
  /\ InVertex
  /\ pc = "provider_ret"
  /\ Len(images_result) > 0
  /\ Len(calls) = 2
  /\ calls[1].token = 1
  /\ calls[2].token = 2

(* C12: one token acquisition makes at most three anchor/reload exchanges *)
(* and ends at the first exchange that yields a token; after three        *)
(* exchanges without a token the Vertex generate_images returns the token *)
(* failure with no images and no generation request follows.              *)
C12_TokenAcquisitionBudget ==
  /\ [](/\ rc_try <= RecaptchaTries
        /\ pc \in {"anchor_calling", "reload", "reload_calling"} => rc_try < RecaptchaTries)
  /\ [][(pc = "reload_calling" /\ tokens' /= tokens) =>
          /\ pc' = "vertex_loop"
          /\ tokens' = tokens + 1
          /\ recaptcha_token' = tokens'
          /\ in_flight' = 0]_vars
  /\ [][(pc = "rc_loop" /\ rc_try = RecaptchaTries) =>
          /\ pc' = "provider_ret"
          /\ images_result' = NoImages
          /\ dispatch_err' = MsgTokenFailed
          /\ calls' = calls
          /\ in_flight' = 0]_vars

C12_Witness ==
  /\ InVertex
  /\ pc = "provider_ret"
  /\ rc_try = RecaptchaTries
  /\ rc_site = "refresh"
  /\ dispatch_err = MsgTokenFailed
  /\ Len(calls) >= 1

(* C16: once the dispatch task is cancelled while suspended in a network  *)
(* request, the dispatch is over: the request is torn down, no step of    *)
(* the dispatch follows, so no retry, key or provider attempt is issued   *)
(* after the cancellation.                                                *)
C16_CancellationEndsDispatch ==
  /\ [](cancel_requested => (pc = "cancelled" /\ in_flight = 0))
  /\ [][/\ ~cancel_requested
        /\ cancel_requested' => (Suspended /\ calls' = calls /\ tried' = tried)]_vars

C16_Witness ==
  /\ cancel_requested
  /\ pc = "cancelled"
  /\ Len(calls) >= 1
  /\ pos < Len(active_providers)
  /\ CurrentConfig.api_type = "Gemini"
  /\ calls[Len(calls)].try + 1 < max_retry
  /\ calls[Len(calls)].key_ + 1 < CurrentConfig.keys

(* C18: no exception of an adapter reaches the dispatcher: every adapter  *)
(* invocation ends with an outcome.                                       *)
C18_NoExceptionReachesDispatcher == pc /= "raised"

(* C19: a request that fails with a status of RETRY_STATUS_CODES is       *)
(* followed by another request with the same key while the key has had    *)
(* fewer than max_retry requests, with smart retry on or off; the key is  *)
(* left after such a failure only when it has had max_retry requests; and *)
(* when the keys are used up after such a failure the error returned is   *)
(* the message of that last request.                                      *)
C19_RetryableRetriedToBudget ==
  /\ [][(pc = "calling" /\ status' \in RETRY_STATUS_CODES) =>
          /\ pc' = "retry_loop"
          /\ i' = i + 1
          /\ key_' = key_
          /\ current_index' = current_index]_vars
  /\ [][(pc = "retry_loop" /\ i > 0 /\ status \in RETRY_STATUS_CODES) =>
          IF i < max_retry
            THEN /\ pc' = "calling"
                 /\ calls' = Append(calls, Call(current_index, key_, i, 0))
                 /\ calls[Len(calls)].key = current_index
            ELSE /\ pc' = "key_loop"
                 /\ Cardinality(CallsIn(pos, key_)) = max_retry
                 /\ Cardinality(CallsWith(pos, current_index)) = max_retry]_vars
  /\ []((KeysExhausted /\ status \in RETRY_STATUS_CODES) =>
          /\ dispatch_err = err
          /\ Truthy(err)
          /\ Cardinality(CallsIn(pos, key_ - 1)) = max_retry)

C19_Witness ==
  /\ KeysExhausted
  /\ smart_retry
  /\ status = 503
  /\ max_retry >= 2
  /\ CurrentConfig.keys >= 2
  /\ Cardinality(CallsIn(pos, key_ - 1)) = max_retry
  /\ dispatch_err = "upstream_error"

(* C20: a Gemini response with status 200 and no image data is retried    *)
(* with the same key: a key whose last request ended that way is left     *)
(* only after max_retry requests, with smart retry on or off.             *)
C20_EmptySuccessRetried ==
  (InKeyRotation /\ pc = "key_loop" /\ key_ > 0
     /\ status = 200 /\ err = "no_image_data") =>
    Cardinality(CallsIn(pos, key_ - 1)) = max_retry

(* the members of a sequence *)
Range(q) == {q[n] : n \in 1..Len(q)}

(* C13: for a request with min_images <= max_images, job enters the       *)
(* dispatch only with at least min_images reference images resolved after *)
(* the downloads; with fewer it returns an error message instead.         *)
C13_MinImagesAfterDownload ==
  min_required_images <= max_allowed_images =>
    /\ job_pc = "dispatch" => Len(image_b64_list) >= min_required_images
    /\ job_pc = "done" => Truthy(job_ret)

(* C14: fetch_images raises no exception, and what it returns is the      *)
(* content of exactly the URLs a download of which succeeded, one entry   *)
(* per URL, in the order of the URLs.                                     *)
C14_FetchImagesPartial ==
  /\ job_pc /= "raised"
  /\ \A a, b \in 1..Len(fetched) : a < b => fetched[a].n < fetched[b].n
  /\ Range(fetched) = {Payload(u) : u \in succeeded}

(* C15: the shared session is never closed while a job task is            *)
(* outstanding, and every task terminate found outstanding has been       *)
(* cancelled and is done when the session is closed.                      *)
C15_SessionOutlivesTasks ==
  ~session_open =>
    /\ \A h \in Handlers : ~Outstanding(h)
    /\ \A h \in gathered : task[h] = "done"

OnTimeout == [status |-> 408, err |-> "timeout"]
OnTransportError == [status |-> StatusNone, err |-> "program_error"]

(* C21: a generation call that fails with a transient transport error     *)
(* (timeout, connection reset) is retried with the same key: a key whose   *)
(* last request ended that way is left only after max_retry requests,      *)
(* with smart retry on or off; and the error a dispatch returns after such *)
(* a failure is the fixed message of the adapter.                          *)
C21_TransientTransportRetried ==
  /\ (InKeyRotation /\ pc = "key_loop" /\ key_ > 0
        /\ [status |-> status, err |-> err] \in {OnTimeout, OnTransportError}) =>
       Cardinality(CallsIn(pos, key_ - 1)) = max_retry
  /\ (KeysExhausted /\ [status |-> status, err |-> err] \in {OnTimeout, OnTransportError}) =>
       dispatch_err \in {"timeout", "program_error"}

(* C22: a Gemini response blocked by the content-safety system            *)
(* (promptFeedback) ends the attempts of the provider, with smart retry   *)
(* on or off: no request of that provider is in flight after one of its   *)
(* requests was answered with a block.                                    *)
C22_SafetyBlockEndsProvider ==
  (InKeyRotation /\ pc = "calling") => err /= "blocked_by_safety"

(* the provider in turn is a key-rotating provider without keys *)
AtEmptyKeyList ==
  /\ pos <= Len(active_providers)
  /\ Configured(active_providers[pos])
  /\ CurrentConfig.api_type = "Gemini"
  /\ CurrentConfig.keys = 0

(* C23: a provider with an empty key list fails fast: generate_images     *)
(* returns the 'no API key configured' error in one step, without a       *)
(* request issued or in flight, and the dispatcher then goes on to the    *)
(* next provider.                                                         *)
C23_EmptyKeyListFailsFast ==
  /\ [][(pc = "base_enter" /\ AtEmptyKeyList) =>
          /\ pc' = "provider_ret"
          /\ dispatch_err' = MsgNoKey
          /\ images_result' = NoImages
          /\ UNCHANGED <<calls, tried, in_flight>>]_vars
  /\ []((pc = "provider_ret" /\ AtEmptyKeyList) =>
          /\ dispatch_err = MsgNoKey
          /\ CallsAt(pos) = {}
          /\ ~tried[Len(tried)].called
          /\ in_flight = 0)
  /\ [][(pc = "provider_ret" /\ AtEmptyKeyList) =>
          /\ pc' = "dispatch"
          /\ pos' = pos + 1]_vars

C23_Witness ==
  /\ Len(active_providers) = 2
  /\ active_providers[1] = GeminiName
  /\ providers_config[GeminiName].keys = 0
  /\ pos = 2
  /\ pc = "vertex_calling"
  /\ tried[1] = [pos |-> 1, called |-> FALSE]

(* the request body built holds an aspectRatio field *)
HasAspectRatio ==
  /\ "imageConfig" \in DOMAIN context
  /\ "aspectRatio" \in DOMAIN context["imageConfig"]

(* the body of the request has been built *)
Built == req_pc \in {"built_gemini", "built_vertex"}

(* C24: when the aspect ratio the builders resolve is "default", the body *)
(* built by the Gemini builder and by the Vertex builder holds no         *)
(* aspectRatio field, for gemini-3 and other models and whatever the      *)
(* other parameters are.                                                  *)
C24_DefaultAspectRatioOmitted ==
  (Built /\ Get(params, "aspect_ratio", def_prompt_config.aspect_ratio) = "default") =>
    ~HasAspectRatio

C24_Witness ==
  /\ req_pc = "built_vertex"
  /\ "aspect_ratio" \in DOMAIN params
  /\ params["aspect_ratio"] = "default"
  /\ def_prompt_config.aspect_ratio = "16:9"
  /\ "imageConfig" \in DOMAIN context
  /\ ~model_gemini3
  /\ ~HasAspectRatio

C24_WitnessGemini ==
  /\ req_pc = "built_gemini"
  /\ "aspect_ratio" \notin DOMAIN params
  /\ def_prompt_config.aspect_ratio = "default"
  /\ model_gemini3
  /\ "imageConfig" \in DOMAIN context
  /\ ~HasAspectRatio

(* the value the layers give to parameter k: the user's message, then the *)
(* preset, then the global default                                        *)
Layered(k) ==
  IF k \in DOMAIN user_params THEN user_params[k]
  ELSE IF k \in DOMAIN preset THEN preset[k]
  ELSE def_prompt_config[k]

(* C27: the value applied to a request is, for every parameter, the one   *)
(* of the user's message if it gives one, else the preset's, else the     *)
(* global default, whether or not the preset prompt holds the user-text   *)
(* placeholder: job reads that min_images, and the body built carries     *)
(* that aspect ratio (unless it is "default") and, for a gemini-3 model,  *)
(* that image size.                                                       *)
C27_LayeredParameters ==
  /\ (req_pc = "build" \/ Built) => min_images_read = Layered("min_images")
  /\ (Built /\ Layered("aspect_ratio") /= "default") =>
       /\ HasAspectRatio
       /\ context["imageConfig"].aspectRatio = Layered("aspect_ratio")
  /\ (Built /\ model_gemini3) =>
       /\ "imageConfig" \in DOMAIN context
       /\ "imageSize" \in DOMAIN context["imageConfig"]
       /\ context["imageConfig"].imageSize = Layered("image_size")

(* the bytes of URL k are within 36 MiB *)
Within(k) == batch[k].size <= SizeLimit

(* the URLs fetch_images is done with *)
UrlsDone == 1..(img_pos - 1)

(* C25: bytes longer than 36 MiB yield no payload and never reach         *)
(* Image.open; bytes of at most 36 MiB always reach it; and an oversize   *)
(* image only drops its own URL: the list holds one payload for every     *)
(* other URL of the batch.                                                *)
C25_SizeGate ==
  /\ \A k \in 1..Len(batch) :
       (_handle_image(batch[k]) = NoPayload) <=> (batch[k].size > 36 * 1024 * 1024)
  /\ \A k \in opened : Within(k)
  /\ \A k \in UrlsDone : Within(k) => k \in opened
  /\ Len(handled) = Cardinality({k \in UrlsDone : Within(k)})

C25_Witness ==
  /\ Len(batch) = 2
  /\ img_pos = 3
  /\ batch[1].size = SizeLimit + 1
  /\ batch[2].size = SizeLimit
  /\ opened = {2}
  /\ Len(handled) = 1

(* the place in the list of the payload of URL k *)
PayloadIndex(k) == Cardinality({j \in 1..k : Within(j)})

(* C26: for bytes within the limit the processor yields one payload: for  *)
(* a GIF, of one frame or more, the PNG of its first frame with mime      *)
(* image/png; for another format PIL names, the bytes themselves with     *)
(* mime image/<format>; for bytes PIL cannot open or convert, the bytes   *)
(* themselves with mime image/gif.  No exception leaves the processor:    *)
(* every URL within the limit is done after one try.                      *)
C26_ImagePayload ==
  /\ \A k \in UrlsDone : Within(k) =>
       LET c == batch[k]
           out == handled[PayloadIndex(k)]
       IN /\ PayloadIndex(k) <= Len(handled)
          /\ IF c.image.opens /\ c.image.format = "GIF" /\ c.image.converts
               THEN out = [mime |-> <<"image", "png">>,
                           data |-> B64([png_of |-> c, frame |-> 0])]
             ELSE IF c.image.opens /\ c.image.format /= "GIF"
               THEN out = [mime |-> <<"image", Lower(c.image.format)>>, data |-> B64(c)]
               ELSE out = [mime |-> <<"image", "gif">>, data |-> B64(c)]
  /\ (img_pos <= Len(batch) /\ Within(img_pos)) => img_try = 0

C26_Witness ==
  /\ Len(batch) = 2
  /\ img_pos = 3
  /\ batch[1].image = [opens |-> TRUE, format |-> "GIF", frames |-> 2, converts |-> TRUE]
  /\ batch[2].image.format = "JPEG"
  /\ Len(handled) = 2
  /\ handled[1].mime = <<"image", "png">>
  /\ handled[2] = [mime |-> <<"image", "jpeg">>, data |-> B64(batch[2])]

(* C28: two dispatches with the same key list and the same outcome for    *)
(* every (key, attempt) make the same sequence of attempts and end on the *)
(* same key with the same result.                                         *)
C28_DeterministicDispatch ==
  (runs[1].done /\ runs[2].done) =>
    /\ runs[1].attempts = runs[2].attempts
    /\ runs[1].key = runs[2].key
    /\ runs[1].images = runs[2].images

(* C29: in the Vertex provider an attempt that failed with status 8       *)
(* (resource exhausted) is followed by a plain retry: the next attempt of *)
(* the loop carries the token of the failed one and no token was issued   *)
(* in between.                                                            *)
C29_ResourceExhaustedPlainRetry ==
  (InVertex /\ pc = "vertex_calling" /\ status = ResourceExhausted) =>
    /\ Len(calls) >= 2
    /\ calls[Len(calls)].token = calls[Len(calls) - 1].token
    /\ calls[Len(calls)].try = calls[Len(calls) - 1].try + 1
    /\ tokens = calls[Len(calls) - 1].token

C29_Witness ==
  /\ InVertex
  /\ pc = "vertex_calling"
  /\ status = ResourceExhausted
  /\ Len(calls) = 2
  /\ calls[1].token = calls[2].token
  /\ calls[2].token = 1

(* C30: one Vertex dispatch makes at most vertex_max_retry generation     *)
(* requests, whatever max_retry, smart_retry and the key lists are; every *)
(* attempt, also one that ended in a token refresh, takes one unit of     *)
(* that budget, and the loop gives up after exactly vertex_max_retry.     *)
C30_VertexBudget ==
  InVertex =>
    /\ Cardinality(CallsAt(pos)) <= vertex_max_retry
    /\ \A n \in CallsAt(pos) : calls[n].try = n - 1
    /\ (pc = "vertex_loop" /\ vx_try >= vertex_max_retry) =>
         Cardinality(CallsAt(pos)) = vertex_max_retry

C30_Witness ==
  /\ InVertex
  /\ active_providers = <<GeminiName, VertexName>>
  /\ pos = 2
  /\ max_retry = 1
  /\ smart_retry
  /\ vertex_max_retry = 2
  /\ pc = "provider_ret"
  /\ Len(images_result) = 0
  /\ Len(calls) = 2
  /\ calls[1].token /= calls[2].token

(* C31: the downloader makes at most 3 GET requests for each URL, makes   *)
(* no request for a URL a download of which already returned content,     *)
(* and when fetch_images has returned every URL it was given has been     *)
(* requested, whatever happened to the URLs before it.                    *)
C31_DownloadBudget ==
  /\ \A u \in DOMAIN gets : gets[u] <= DownloadTries
  /\ job_pc \in {"get", "get_unverified"} => fetch_urls[url_pos] \notin succeeded
  /\ job_pc \in {"send", "dispatch", "done"} => \A u \in DOMAIN gets : gets[u] >= 1

(* C32: when a candidate of a 200 response has a finishReason other than  *)
(* STOP, the Gemini adapter call returns no image and an error message    *)
(* that quotes the finishReason of such a candidate, over the sync and    *)
(* over the streamed transport alike.                                     *)
NotStopped ==
  {k \in 1..Len(api_result.candidates) : api_result.candidates[k].finishReason /= "STOP"}

C32_NonStopFailsWholeCall ==
  (parse_pc = "returned" /\ NotStopped /= {}) =>
    /\ parsed.images = NoImages
    /\ parsed.err.text = "finish_reason"
    /\ \E k \in NotStopped : parsed.err.quoted = api_result.candidates[k].finishReason

(* the dispatch coroutine has ended: _dispatch returned or an exception   *)
(* left it                                                                *)
Terminated == pc \in {"done", "raised"}

(* generate_images of a configured provider is running or has returned *)
ProviderInTurn ==
  /\ pos <= Len(active_providers)
  /\ Configured(active_providers[pos])

(* an upper bound of the anchor/reload exchanges the running Vertex       *)
(* generate_images has started: three for each token obtained, and those  *)
(* of the acquisition under way                                           *)
ExchangesStarted ==
  RecaptchaTries * tokens
    + (IF pc \in {"anchor_calling", "reload", "reload_calling"} THEN rc_try + 1
       ELSE IF pc = "rc_loop" THEN rc_try
       ELSE 0)

(* the generation requests one generate_images may make *)
CallBudget ==
  IF CurrentConfig.api_type = "Gemini"
    THEN CurrentConfig.keys * max_retry
    ELSE vertex_max_retry

(* What is left of the loops, as a number that every step lowers.         *)
(* One iteration of `for i in range(max_retry)`: the loop test, the call. *)
(* One key: its inner loop, the outer loop test.                          *)
KeyBlock == 2 * max_retry + 3

(* one _get_recaptcha_token: per exchange the loop test, the GET, the     *)
(* POST and its response                                                  *)
TokenRank ==
  CASE pc = "rc_loop"        -> 4 * (RecaptchaTries - rc_try) + 1
    [] pc = "anchor_calling" -> 4 * (RecaptchaTries - rc_try)
    [] pc = "reload"         -> 4 * (RecaptchaTries - rc_try) - 1
    [] pc = "reload_calling" -> 4 * (RecaptchaTries - rc_try) - 2
    [] OTHER                 -> 0

TokenBlock == 4 * RecaptchaTries + 2

(* one iteration of the Vertex loop: the loop test, the call, a refresh *)
VertexBlock == TokenBlock + 2

AcquiringToken == pc \in {"rc_loop", "anchor_calling", "reload", "reload_calling"}

(* what is left of the generate_images call in turn *)
ProviderRank ==
  CASE pc = "base_enter"  -> (CurrentConfig.keys + 1) * KeyBlock + 1
    [] pc = "key_loop"    -> (CurrentConfig.keys - key_) * KeyBlock + KeyBlock
    [] pc = "retry_loop"  -> (CurrentConfig.keys - key_) * KeyBlock + 2 * (max_retry - i) + 2
    [] pc = "calling"     -> (CurrentConfig.keys - key_) * KeyBlock + 2 * (max_retry - i) + 1
    [] pc = "vertex_enter" -> (vertex_max_retry + 2) * VertexBlock
    [] AcquiringToken /\ rc_site = "first" ->
         (vertex_max_retry + 1) * VertexBlock + TokenRank + 1
    [] AcquiringToken /\ rc_site = "refresh" ->
         (vertex_max_retry - vx_try) * VertexBlock + TokenRank + 1
    [] pc = "vertex_loop"    -> (vertex_max_retry - vx_try) * VertexBlock + VertexBlock
    [] pc = "vertex_calling" -> (vertex_max_retry - vx_try) * VertexBlock + VertexBlock - 1
    [] OTHER -> 0

(* more than ProviderRank can be, for every provider of the configuration *)
ProviderBlock ==
  (providers_config[GeminiName].keys + 2) * KeyBlock
    + (vertex_max_retry + 3) * VertexBlock + 2

Rank ==
  IF Terminated THEN 0
  ELSE (Len(active_providers) + 1 - pos) * ProviderBlock
         + (IF pc = "dispatch" THEN ProviderBlock - 1 ELSE ProviderRank)

(* C33: every dispatch terminates when every network call returns (each   *)
(* step of a dispatch lowers a natural number, so no dispatch takes       *)
(* infinitely many steps); a key-rotation provider makes at most          *)
(* len(keys) * max_retry generation requests, a Vertex provider at most   *)
(* its max_retry, and one Vertex generate_images makes at most            *)
(* 3 * (1 + max_retry) reCAPTCHA exchanges.                               *)
C33_DispatchTerminatesWithinBudget ==
  /\ [][Rank' < Rank]_vars
  /\ [](Rank \in Nat)
  /\ [](ProviderInTurn =>
          /\ Len(calls) <= CallBudget
          /\ ExchangesStarted <= RecaptchaTries * (1 + vertex_max_retry))
  /\ [](~ProviderInTurn => Len(calls) = 0)

(* two providers were invoked, both made requests, neither succeeded *)
C33_Witness ==
  /\ pc = "done"
  /\ Len(active_providers) = 2
  /\ Len(tried) = 2
  /\ \A n \in 1..2 : tried[n].called
  /\ Len(ret.images) = 0
  /\ Truthy(ret.err)

(* C34: in the Vertex generate_images a token refresh runs only when      *)
(* another generation attempt is left in the retry budget, every token    *)
(* obtained has been sent in a request when the call returns, and the     *)
(* error returned once the budget is used up is the message of the last   *)
(* generation attempt.  Stated for a retry budget of at least one.       *)
C34_NoRefreshAfterLastAttempt ==
  (InVertex /\ vertex_max_retry >= 1) =>
    /\ (AcquiringToken /\ rc_site = "refresh") => vx_try + 1 < vertex_max_retry
    /\ pc = "provider_ret" =>
         \A t \in 1..tokens : \E n \in 1..Len(calls) : calls[n].token = t
    /\ (pc = "provider_ret" /\ Len(images_result) = 0
          /\ Len(calls) >= 1 /\ Len(calls) = vertex_max_retry) =>
         dispatch_err = OrElse(err_msg, MsgVertexExhausted)

(* C35: the reference images job hands to _dispatch are never more than   *)
(* max_images, whatever the names in refer_images, the URLs of the        *)
(* message and the downloads that succeed.                                *)
C35_ReferenceImagesWithinMax ==
  job_pc \in {"send", "dispatch"} => Len(image_b64_list) <= max_allowed_images

(* a file and a download fill the list while a second URL is left out *)
C35_Witness ==
  /\ job_pc = "dispatch"
  /\ max_allowed_images = 2
  /\ Len(image_urls) = 2
  /\ image_b64_list = <<ReferImage(2), Payload(1)>>

(* C36: when the aspect ratio the builders resolve is not "default", the  *)
(* body built by the Gemini builder and by the Vertex builder holds that  *)
(* aspect ratio in generationConfig.imageConfig, for every model, the     *)
(* gemini-3 models included.                                              *)
C36_AspectRatioInBody ==
  (Built /\ Get(params, "aspect_ratio", def_prompt_config.aspect_ratio) /= "default") =>
    /\ HasAspectRatio
    /\ context["imageConfig"].aspectRatio =
         Get(params, "aspect_ratio", def_prompt_config.aspect_ratio)

(* C37: running_tasks holds the task of a message only while the handler  *)
(* of that message is between create_task and its finally clause; it is   *)
(* empty once every handler has returned, and empty once terminate has    *)
(* returned.                                                              *)
C37_RunningTasksLifetime ==
  /\ \A h \in running_tasks : handler_pc[h] = "awaiting"
  /\ (\A h \in Handlers : handler_pc[h] \in {"absent", "done"}) => running_tasks = {}
  /\ term_pc = "done" => running_tasks = {}

(* C38: after every completed administration command prompt_dict is the   *)
(* parse of prompt_list: a trigger word is a key of prompt_dict exactly    *)
(* when an entry of prompt_list defines it, with the preset of the last    *)
(* such entry.                                                            *)
C38_PromptDictMatchesList ==
  /\ DOMAIN prompt_dict = UNION {Words(CmdList(prompt_list[n])) : n \in DOMAIN prompt_list}
  /\ prompt_dict = init_prompts(prompt_list)

====
